---------------------------- MODULE Spec2Model ----------------------------
(***************************************************************************)
(* A model of the discovery-and-verification pipeline of the Corte         *)
(* Constitucional extractor (backend/services/scraping).                   *)
(*                                                                         *)
(* Text is modelled as sequences of one-character strings, so that         *)
(* lower-casing, replacement and substring tests are computed the way the  *)
(* Python code computes them.  Time is the value of time.time() in whole   *)
(* seconds.                                                                *)
(***************************************************************************)
EXTENDS Integers, Sequences, FiniteSets, TLC

(***************************************************************************)
(* Text helpers (Python str operations used by the source).                *)
(***************************************************************************)

\* str.lower() on one character (the letters that occur in the model's texts).
LowerChar(c) ==
    CASE c = "A" -> "a" [] c = "B" -> "b" [] c = "C" -> "c" [] c = "D" -> "d"
      [] c = "E" -> "e" [] c = "F" -> "f" [] c = "G" -> "g" [] c = "H" -> "h"
      [] c = "I" -> "i" [] c = "J" -> "j" [] c = "K" -> "k" [] c = "L" -> "l"
      [] c = "M" -> "m" [] c = "N" -> "n" [] c = "O" -> "o" [] c = "P" -> "p"
      [] c = "Q" -> "q" [] c = "R" -> "r" [] c = "S" -> "s" [] c = "T" -> "t"
      [] c = "U" -> "u" [] c = "V" -> "v" [] c = "W" -> "w" [] c = "X" -> "x"
      [] c = "Y" -> "y" [] c = "Z" -> "z" [] OTHER -> c

\* str.upper() on one character (the letters that occur in the model's texts).
UpperChar(c) ==
    CASE c = "a" -> "A" [] c = "b" -> "B" [] c = "c" -> "C" [] c = "d" -> "D"
      [] c = "e" -> "E" [] c = "f" -> "F" [] c = "g" -> "G" [] c = "h" -> "H"
      [] c = "i" -> "I" [] c = "j" -> "J" [] c = "k" -> "K" [] c = "l" -> "L"
      [] c = "m" -> "M" [] c = "n" -> "N" [] c = "o" -> "O" [] c = "p" -> "P"
      [] c = "q" -> "Q" [] c = "r" -> "R" [] c = "s" -> "S" [] c = "t" -> "T"
      [] c = "u" -> "U" [] c = "v" -> "V" [] c = "w" -> "W" [] c = "x" -> "X"
      [] c = "y" -> "Y" [] c = "z" -> "Z" [] OTHER -> c

\* str.upper()
Upper(s) == [i \in 1..Len(s) |-> UpperChar(s[i])]

\* str.lower()
Lower(s) == [i \in 1..Len(s) |-> LowerChar(s[i])]

\* `needle in hay` for Python strings (the empty needle is in every string).
Contains(needle, hay) ==
    \E i \in 1..(Len(hay) - Len(needle) + 1) :
        SubSeq(hay, i, i + Len(needle) - 1) = needle

\* str.startswith(prefix)
StartsWith(s, prefix) ==
    /\ Len(prefix) <= Len(s)
    /\ SubSeq(s, 1, Len(prefix)) = prefix

\* str.replace(old, new) for a non-empty old: leftmost, non-overlapping, all occurrences.
RECURSIVE Replace(_, _, _)
Replace(s, old, new) ==
    IF Len(s) < Len(old) THEN s
    ELSE IF SubSeq(s, 1, Len(old)) = old
         THEN new \o Replace(SubSeq(s, Len(old) + 1, Len(s)), old, new)
         ELSE <<s[1]>> \o Replace(Tail(s), old, new)

DigitChar(d) ==
    CASE d = 0 -> "0" [] d = 1 -> "1" [] d = 2 -> "2" [] d = 3 -> "3" [] d = 4 -> "4"
      [] d = 5 -> "5" [] d = 6 -> "6" [] d = 7 -> "7" [] d = 8 -> "8" [] d = 9 -> "9"

\* str(n) / f"{n}" for a natural number.
RECURSIVE Digits(_)
Digits(n) == IF n < 10 THEN <<DigitChar(n)>> ELSE Digits(n \div 10) \o <<DigitChar(n % 10)>>

(***************************************************************************)
(* ExtractorConfig                                                         *)
(***************************************************************************)

BASE_URL == <<"h", "t", "t", "p", "s", ":", "/", "/", "w", "w", "w", ".", "c", "o", "r", "t", "e", "c", "o", "n", "s", "t", "i", "t", "u", "c", "i", "o", "n", "a", "l", ".", "g", "o", "v", ".", "c", "o">>

URL_CACHE_TTL == 1800

EXTENDED_SEARCH_DAYS == 8

NORMAL_SEARCH_DAYS == 2

\* A url synthesis without the special case of the SU family.
get_document_url_NoSuRule(sentence_id, year) ==
    BASE_URL \o <<"/", "s", "e", "n", "t", "e", "n", "c", "i", "a", "s", "/">>
      \o Digits(year) \o <<"/">> \o Replace(Lower(sentence_id), <<"/">>, <<"-">>)
      \o <<".", "r", "t", "f">>

\* ExtractorConfig.get_document_url
get_document_url(sentence_id, year) ==
    LET normalized_id ==
            IF StartsWith(sentence_id, <<"S", "U", ".">>)
            THEN Lower(Replace(Replace(sentence_id, <<"S", "U", ".">>, <<"s", "u">>),
                               <<"/">>, <<"-">>))
            ELSE Replace(Lower(sentence_id), <<"/">>, <<"-">>)
    IN  BASE_URL \o <<"/", "s", "e", "n", "t", "e", "n", "c", "i", "a", "s", "/">>
          \o Digits(year) \o <<"/">> \o normalized_id \o <<".", "r", "t", "f">>

\* ExtractorConfig.get_html_url
get_html_url(sentence_id, year) ==
    BASE_URL \o <<"/", "r", "e", "l", "a", "t", "o", "r", "i", "a", "/">> \o Digits(year) \o <<"/">>
      \o Replace(sentence_id, <<"/">>, <<"-">>) \o <<".", "h", "t", "m">>

\* str.split(sep)[0]: the text before the first sep (all of it if there is none).
SplitFirst(s, sep) ==
    IF \E i \in 1..Len(s) : s[i] = sep
    THEN SubSeq(s, 1, (CHOOSE i \in 1..Len(s) : s[i] = sep /\ \A j \in 1..(i - 1) : s[j] # sep) - 1)
    ELSE s

UNKNOWN == <<"U", "N", "K", "N", "O", "W", "N">>

\* ExtractorConfig.extract_document_type
extract_document_type(sentence_id) ==
    IF \E i \in 1..Len(sentence_id) : sentence_id[i] = "-" THEN SplitFirst(sentence_id, "-")
    ELSE IF \E i \in 1..Len(sentence_id) : sentence_id[i] = "." THEN SplitFirst(sentence_id, ".")
    ELSE UNKNOWN

(***************************************************************************)
(* The live probe: requests.head(url, timeout=3, allow_redirects=True)     *)
(***************************************************************************)

TextHtml == <<"t", "e", "x", "t", "/", "h", "t", "m", "l">>
ApplicationRtf == <<"a", "p", "p", "l", "i", "c", "a", "t", "i", "o", "n", "/", "r", "t", "f">>
ApplicationOpenXml == <<"a", "p", "p", "l", "i", "c", "a", "t", "i", "o", "n", "/", "v", "n", "d", ".", "o", "p", "e", "n", "x", "m", "l", "f", "o", "r", "m", "a", "t", "s">>
ApplicationMsword == <<"a", "p", "p", "l", "i", "c", "a", "t", "i", "o", "n", "/", "m", "s", "w", "o", "r", "d">>
ApplicationPdf == <<"a", "p", "p", "l", "i", "c", "a", "t", "i", "o", "n", "/", "p", "d", "f">>
ApplicationOctetStream == <<"a", "p", "p", "l", "i", "c", "a", "t", "i", "o", "n", "/", "o", "c", "t", "e", "t", "-", "s", "t", "r", "e", "a", "m">>

\* valid_types of _verify_document_url
valid_types ==
    {ApplicationRtf, ApplicationOpenXml, ApplicationMsword, ApplicationPdf,
     ApplicationOctetStream}

\* The content-type header of a response: absent, or present with a value.
NoHeader == [present |-> FALSE, value |-> <<>>]

Header(value) == [present |-> TRUE, value |-> value]

\* response.headers.get('content-type', '')
HeaderGet(ctype) == IF ctype.present THEN ctype.value ELSE <<>>

\* A probe either raises (kind is the exception class) or answers with a
\* status code and a content-type header.
Raised(kind) == [kind |-> kind, status |-> 0, ctype |-> NoHeader]

Answered(status, ctype) == [kind |-> "response", status |-> status, ctype |-> ctype]

\* A classification that lets every 2xx status through to the content-type test.
is_valid_document_Any2xx(status, ctype) ==
    IF status < 200 \/ status > 299 THEN FALSE
    ELSE LET content_type == Lower(HeaderGet(ctype))
         IN  /\ ~Contains(TextHtml, content_type)
             /\ \/ \E vtype \in valid_types : Contains(vtype, content_type)
                \/ content_type = <<>>

\* The body of the try block of _verify_document_url, for an answered probe.
is_valid_document(status, ctype) ==
    IF status # 200 THEN FALSE
    ELSE LET content_type == Lower(HeaderGet(ctype))
         IN  /\ ~Contains(TextHtml, content_type)
             /\ \/ \E vtype \in valid_types : Contains(vtype, content_type)
                \/ content_type = <<>>

\* The other variant's policy: a connection error keeps the document.
verify_document_url_Lenient(resp) ==
    CASE resp.kind = "response"   -> is_valid_document(resp.status, resp.ctype)
      [] resp.kind = "timeout"    -> FALSE
      [] resp.kind = "connection" -> TRUE
      [] OTHER                    -> FALSE

\* CorteConstitucionalExtractor._verify_document_url: every exception class
\* (Timeout, ConnectionError, any other Exception) returns False.
verify_document_url(resp) ==
    CASE resp.kind = "response"   -> is_valid_document(resp.status, resp.ctype)
      [] resp.kind = "timeout"    -> FALSE
      [] resp.kind = "connection" -> FALSE
      [] OTHER                    -> FALSE

(***************************************************************************)
(* State                                                                   *)
(***************************************************************************)

VARIABLES
    now,          \* the value time.time() returns, in seconds
    url_cache,    \* self._url_cache: url -> [valid, timestamp]
    last_probe,   \* history: url -> the time of the latest live probe made for it
    last,         \* history: the last call of _verify_document_url_cached
    probe_resp,   \* SpecProbe: the probe outcome handed to _verify_document_url
    probe_verdict,\* SpecProbe: what _verify_document_url returned for it
    main_pc,      \* run_extractor.main: where the invocation is ("lib": no wrapper)
    args,         \* the arguments of the run: [limit, check_database_empty, download]
    pc,           \* extract_latest_sentences: where the run is
    driver,       \* self.driver: "none", "live" or "quit"
    today,        \* datetime.now(), as a day number (day 0 is a Monday)
    page,         \* the rows the browser shows after the click
    search,       \* locals of the run and of the current pass
    docs,         \* documents / valid_documents of extract_latest_sentences and the result
    hist,         \* history of the run: passes, events, verdicts
    out,          \* what main has emitted: payload, downloadedCount, exit code
    disk,         \* the files under self.download_dir: path -> [body, size]
    dl,           \* history: the last call of download_document
    nav           \* SpecNav: the candidates of a navigation and what the call returned

cacheVars == <<now, url_cache, last_probe, last>>

probeVars == <<probe_resp, probe_verdict>>

runVars == <<main_pc, args, pc, driver, today, page, search, docs, hist, out>>

dlVars == <<disk, dl>>

navVars == <<nav>>

vars == <<now, url_cache, last_probe, last, probe_resp, probe_verdict,
          main_pc, args, pc, driver, today, page, search, docs, hist, out, disk, dl, nav>>

(***************************************************************************)
(* The Verification Cache                                                  *)
(***************************************************************************)

\* self._cache_ttl, set once in __init__
cache_ttl == URL_CACHE_TTL

\* The size above which a cache miss runs the sweep.
CLEANUP_SIZE == 100

\* A lookup that still trusts an entry whose age equals the TTL.
EntryLive_AtTtl(entry, current_time) == current_time - entry.timestamp <= URL_CACHE_TTL

\* The lookup's freshness test of _verify_document_url_cached.
EntryLive(entry, current_time) == current_time - entry.timestamp < cache_ttl

\* A sweep that keeps an entry whose age equals the TTL.
EntryExpired_Strict(entry, current_time) == current_time - entry.timestamp > URL_CACHE_TTL

\* The expiry test of _cleanup_expired_cache.
EntryExpired(entry, current_time) == current_time - entry.timestamp >= cache_ttl

\* The guard of the periodic sweep in _verify_document_url_cached.
CleanupDue(cache) == Cardinality(DOMAIN cache) > CLEANUP_SIZE

\* del self._url_cache[key]
DictDel(cache, key) == [k \in DOMAIN cache \ {key} |-> cache[k]]

\* self._url_cache[key] = value
DictSet(cache, key, value) == [k \in DOMAIN cache \cup {key} |-> IF k = key THEN value ELSE cache[k]]

\* CorteConstitucionalExtractor._cleanup_expired_cache
cleanup_expired_cache(cache, current_time) ==
    LET expired_keys == {url \in DOMAIN cache : EntryExpired(cache[url], current_time)}
    IN  [k \in DOMAIN cache \ expired_keys |-> cache[k]]

\* A lookup that restarts the TTL of the entry it answers from.
verify_document_url_cached_RefreshOnHit(cache, current_time, url, resp) ==
    IF url \in DOMAIN cache /\ EntryLive(cache[url], current_time)
    THEN [cache |-> DictSet(cache, url, [valid |-> cache[url].valid, timestamp |-> current_time]),
          result |-> cache[url].valid, probed |-> FALSE, swept |-> FALSE]
    ELSE LET dropped == IF url \in DOMAIN cache THEN DictDel(cache, url) ELSE cache
             sweep == CleanupDue(dropped)
             cleaned == IF sweep THEN cleanup_expired_cache(dropped, current_time) ELSE dropped
             is_valid == verify_document_url(resp)
         IN  [cache |-> DictSet(cleaned, url, [valid |-> is_valid, timestamp |-> current_time]),
              result |-> is_valid, probed |-> TRUE, swept |-> sweep]

\* A lookup that stores only the verdicts of the probes that were answered.
verify_document_url_cached_AnsweredOnly(cache, current_time, url, resp) ==
    IF url \in DOMAIN cache /\ EntryLive(cache[url], current_time)
    THEN [cache |-> cache, result |-> cache[url].valid, probed |-> FALSE, swept |-> FALSE]
    ELSE LET dropped == IF url \in DOMAIN cache THEN DictDel(cache, url) ELSE cache
             sweep == CleanupDue(dropped)
             cleaned == IF sweep THEN cleanup_expired_cache(dropped, current_time) ELSE dropped
             is_valid == verify_document_url(resp)
         IN  [cache |-> IF resp.kind = "response"
                        THEN DictSet(cleaned, url, [valid |-> is_valid, timestamp |-> current_time])
                        ELSE cleaned,
              result |-> is_valid, probed |-> TRUE, swept |-> sweep]

\* CorteConstitucionalExtractor._verify_document_url_cached, as a function of
\* the cache, the clock reading, the url and what the probe would answer.
\* result is the returned verdict; probed and swept tell whether the live
\* probe and the sweep ran.
verify_document_url_cached(cache, current_time, url, resp) ==
    IF url \in DOMAIN cache /\ EntryLive(cache[url], current_time)
    THEN [cache |-> cache, result |-> cache[url].valid, probed |-> FALSE, swept |-> FALSE]
    ELSE LET dropped == IF url \in DOMAIN cache THEN DictDel(cache, url) ELSE cache
             sweep == CleanupDue(dropped)
             cleaned == IF sweep THEN cleanup_expired_cache(dropped, current_time) ELSE dropped
             is_valid == verify_document_url(resp)
         IN  [cache |-> DictSet(cleaned, url, [valid |-> is_valid, timestamp |-> current_time]),
              result |-> is_valid, probed |-> TRUE, swept |-> sweep]

\* The state change of one call verify(url) at the current clock reading.
\* last.flip alternates, so that every call is a step that changes the state.
VerifyCall(url, resp) ==
    LET r == verify_document_url_cached(url_cache, now, url, resp)
    IN  /\ url_cache' = r.cache
        /\ last_probe' = IF r.probed THEN DictSet(last_probe, url, now) ELSE last_probe
        /\ last' = [url |-> url, result |-> r.result,
                    probe |-> IF ~r.probed THEN "none"
                              ELSE IF resp.kind = "response" THEN "response" ELSE "failure",
                    swept |-> r.swept, flip |-> ~last.flip, failed |-> last.failed]

\* The same call, made by a caller that keeps a record of the urls whose
\* latest probe raised.
LoggedCall(url, resp) ==
    LET r == verify_document_url_cached(url_cache, now, url, resp)
    IN  /\ url_cache' = r.cache
        /\ last_probe' = IF r.probed THEN DictSet(last_probe, url, now) ELSE last_probe
        /\ last' = [url |-> url, result |-> r.result,
                    probe |-> IF ~r.probed THEN "none"
                              ELSE IF resp.kind = "response" THEN "response" ELSE "failure",
                    swept |-> r.swept, flip |-> ~last.flip,
                    failed |-> IF ~r.probed THEN last.failed
                               ELSE IF resp.kind = "response" THEN last.failed \ {url}
                               ELSE last.failed \cup {url}]

\* failed: the urls whose latest probe raised, where the caller records them.
NoCall ==
    [url |-> <<>>, result |-> FALSE, probe |-> "none", swept |-> FALSE,
     flip |-> FALSE, failed |-> {}]

(***************************************************************************)
(* What a probe can answer                                                 *)
(***************************************************************************)

CtHtmlCharset == <<"t", "e", "x", "t", "/", "h", "t", "m", "l", ";", " ", "c", "h", "a", "r", "s", "e", "t", "=", "u", "t", "f", "-", "8">>
CtHtmlUpper == <<"T", "e", "x", "t", "/", "H", "T", "M", "L">>
CtPdfUpper == <<"A", "p", "p", "l", "i", "c", "a", "t", "i", "o", "n", "/", "P", "D", "F">>
CtDocx == <<"a", "p", "p", "l", "i", "c", "a", "t", "i", "o", "n", "/", "v", "n", "d", ".", "o", "p", "e", "n", "x", "m", "l", "f", "o", "r", "m", "a", "t", "s", "-", "o", "f", "f", "i", "c", "e", "d", "o", "c", "u", "m", "e", "n", "t", ".", "w", "o", "r", "d", "p", "r", "o", "c", "e", "s", "s", "i", "n", "g", "m", "l", ".", "d", "o", "c", "u", "m", "e", "n", "t">>
CtTextRtf == <<"t", "e", "x", "t", "/", "r", "t", "f">>
CtPlain == <<"t", "e", "x", "t", "/", "p", "l", "a", "i", "n">>
CtPdfThenHtml == <<"a", "p", "p", "l", "i", "c", "a", "t", "i", "o", "n", "/", "p", "d", "f", ",", " ", "t", "e", "x", "t", "/", "h", "t", "m", "l">>

ContentTypeValues ==
    {<<>>, TextHtml, CtHtmlCharset, CtHtmlUpper, ApplicationRtf, ApplicationMsword,
     ApplicationPdf, CtPdfUpper, ApplicationOctetStream, CtDocx, CtTextRtf, CtPlain,
     CtPdfThenHtml}

ContentTypes == {NoHeader} \cup {Header(v) : v \in ContentTypeValues}

StatusCodes == {200, 201, 204, 206, 299, 199, 301, 304, 404, 500}

FailureKinds == {"timeout", "connection", "other"}

ProbeOutcomes ==
    {Raised(k) : k \in FailureKinds}
      \cup {Answered(s, c) : s \in StatusCodes, c \in ContentTypes}

\* A short list of outcomes with both verdicts and every failure kind,
\* for the specifications whose subject is not the probe itself.
FewProbeOutcomes ==
    {Raised(k) : k \in FailureKinds}
      \cup {Answered(200, Header(ApplicationRtf)), Answered(200, Header(TextHtml))}

(***************************************************************************)
(* download_document: requests.get(url, timeout=30, stream=True), then the  *)
(* file system under self.download_dir.                                    *)
(***************************************************************************)

\* str.endswith(suffix)
EndsWith(s, suffix) ==
    /\ Len(suffix) <= Len(s)
    /\ SubSeq(s, Len(s) - Len(suffix) + 1, Len(s)) = suffix

\* s[:n]
Prefix(s, n) == SubSeq(s, 1, IF Len(s) < n THEN Len(s) ELSE n)

\* ExtractorConfig.normalize_filename
normalize_filename(sentence_id) ==
    Replace(Replace(sentence_id, <<"/">>, <<"-">>), <<" ">>, <<"_">>)

\* The directories download_document creates under self.download_dir.
rtf_dir == <<"r", "t", "f", "/">>
docx_dir == <<"d", "o", "c", "x", "/">>

DotRtf == <<".", "r", "t", "f">>
DotDocx == <<".", "d", "o", "c", "x">>

\* The signatures the first bytes are compared with: b'PK' and b'{\\rtf'.
MagicZip == <<"P", "K">>
MagicRtf == <<"{", "\\", "r", "t", "f">>

\* The texts looked for in the lower-cased preview.
DoctypeHtml == <<"<", "!", "d", "o", "c", "t", "y", "p", "e", " ", "h", "t", "m", "l">>
HtmlTag == <<"<", "h", "t", "m", "l">>

\* response.content[:500]
PREVIEW_BYTES == 500

\* The size below which the written file is deleted.
MIN_FILE_SIZE == 100

\* A response body: size bytes that start with magic, hold marker from byte
\* marker_at on (nothing if marker is empty) and are filler elsewhere.
Body(magic, marker, marker_at, size) ==
    [magic |-> magic, marker |-> marker, marker_at |-> marker_at, size |-> size]

\* response.content: the bytes of a body.
Content(b) ==
    [i \in 1..b.size |->
        IF i <= Len(b.magic) THEN b.magic[i]
        ELSE IF i >= b.marker_at /\ i < b.marker_at + Len(b.marker)
             THEN b.marker[i - b.marker_at + 1]
             ELSE "x"]

\* What requests.get / raise_for_status can do: raise (timeout, connection
\* error) or answer with a status, headers and a body.
DlRaised(kind) == [kind |-> kind, status |-> 0, ctype |-> NoHeader, body |-> Body(<<>>, <<>>, 0, 0)]
DlAnswered(status, ctype, body) == [kind |-> "response", status |-> status, ctype |-> ctype, body |-> body]

\* Which file-system call of the download raises ("none": none does), and
\* how many bytes had reached the file when a write raises.
FsFault(at, written) == [at |-> at, written |-> written]
NoFsFault == FsFault("none", 0)

\* The surroundings of one download: the transport and the file system.
Env(resp, fs) == [resp |-> resp, fs |-> fs]
NoEnv == Env(DlRaised("connection"), NoFsFault)

\* A download_document without its except clause.
download_except_clause_None(fault) == "none"

\* The except clause of download_document catches every Exception.
download_except_clause(fault) == "except"

\* A storage location that trusts the name guessed from the url suffix.
actual_path_BySuffix(first_bytes, safe_name, filename) == rtf_dir \o filename

\* Where download_document stores a body: by its signature, and under the
\* name guessed from the url suffix if it has neither signature.
actual_path(first_bytes, safe_name, filename) ==
    IF StartsWith(first_bytes, MagicZip) THEN docx_dir \o safe_name \o DotDocx
    ELSE IF StartsWith(first_bytes, MagicRtf) THEN rtf_dir \o safe_name \o DotRtf
    ELSE rtf_dir \o filename

\* CorteConstitucionalExtractor.download_document.  The result holds the
\* files afterwards, the returned path (<<>> for None), whether an exception
\* left the call, and which file the call opened for writing and how many
\* bytes it wrote there.
download_document(files, document_url, sentence_number, env) ==
    LET none(d, wrote, written) ==
            [disk |-> d, path |-> <<>>, escaped |-> FALSE, wrote |-> wrote, written |-> written]
        raised(fault, d, wrote, written) ==
            [disk |-> d, path |-> <<>>,
             escaped |-> download_except_clause(fault) # "except",
             wrote |-> wrote, written |-> written]
    IN
    IF document_url = <<>> THEN none(files, <<>>, 0)
    ELSE IF env.fs.at = "mkdir" THEN raised("mkdir", files, <<>>, 0)
    ELSE
    LET safe_name == normalize_filename(sentence_number)
        extension == IF EndsWith(document_url, DotRtf) THEN DotRtf ELSE DotDocx
        filename == safe_name \o extension
    IN
    IF env.resp.kind # "response" THEN raised(env.resp.kind, files, <<>>, 0)
    ELSE IF env.resp.status >= 400 /\ env.resp.status < 600 THEN raised("http", files, <<>>, 0)
    ELSE
    LET content == Content(env.resp.body)
        content_type == Lower(HeaderGet(env.resp.ctype))
        content_preview == Lower(Prefix(content, PREVIEW_BYTES))
        is_html == \/ Contains(TextHtml, content_type)
                   \/ Contains(DoctypeHtml, content_preview)
                   \/ Contains(HtmlTag, content_preview)
        first_bytes == Prefix(content, 10)
        local_path == actual_path(first_bytes, safe_name, filename)
        partial == DictSet(files, local_path, [body |-> env.resp.body, size |-> env.fs.written])
        full == DictSet(files, local_path, [body |-> env.resp.body, size |-> Len(content)])
        file_size == Len(content)
    IN
    IF is_html THEN none(files, <<>>, 0)
    ELSE IF env.fs.at = "open" THEN raised("open", files, <<>>, 0)
    ELSE IF env.fs.at = "write" THEN raised("write", partial, local_path, env.fs.written)
    ELSE IF env.fs.at = "stat" THEN raised("stat", full, local_path, file_size)
    ELSE IF file_size < MIN_FILE_SIZE
         THEN IF env.fs.at = "unlink" THEN raised("unlink", full, local_path, file_size)
              ELSE none(DictDel(full, local_path), local_path, file_size)
         ELSE [disk |-> full, path |-> local_path, escaped |-> FALSE,
               wrote |-> local_path, written |-> file_size]

\* The downloads a run of main meets: a timeout, a document, an HTML page
\* and a write that fails on an empty file.
FewDlEnvs ==
    {Env(DlRaised("timeout"), NoFsFault),
     Env(DlAnswered(200, Header(ApplicationRtf), Body(MagicRtf, <<>>, 0, MIN_FILE_SIZE)), NoFsFault),
     Env(DlAnswered(200, Header(TextHtml), Body(<<>>, HtmlTag, 1, MIN_FILE_SIZE)), NoFsFault),
     Env(DlAnswered(200, NoHeader, Body(MagicRtf, <<>>, 0, MIN_FILE_SIZE)), FsFault("write", 0))}

\* A call of download_document and the record of it.
DownloadCall(document_url, sentence_number, env) ==
    LET r == download_document(disk, document_url, sentence_number, env)
    IN  /\ disk' = r.disk
        /\ dl' = [calls |-> dl.calls + 1, document_url |-> document_url,
                  sentence_number |-> sentence_number, env |-> env,
                  path |-> r.path, escaped |-> r.escaped,
                  wrote |-> r.wrote, written |-> r.written]

(***************************************************************************)
(* SpecCache: verify(url) called in any order while time passes.           *)
(***************************************************************************)

\* How many times the clock advances.
MaxTicks == 2

\* The cache is keyed by the url text; here the n-th url is the text of n.
UrlOf(n) == Digits(n)

\* A cache that earlier calls filled with the urls of T-1/25 .. T-k/25, the
\* odd ones probed at time 0 and the even ones at time 1.
FilledCache(k) ==
    [u \in {UrlOf(i) : i \in 1..k} |->
        LET i == CHOOSE j \in 1..k : UrlOf(j) = u
        IN  [valid |-> (i % 3 # 0), timestamp |-> (i + 1) % 2]]

FilledProbes(k) == [u \in DOMAIN FilledCache(k) |-> FilledCache(k)[u].timestamp]

\* The cache sizes a checked behaviour starts from: empty (just constructed),
\* at the sweep threshold and one above it.
StartSizes == {0, CLEANUP_SIZE, CLEANUP_SIZE + 1}

\* The urls the checked calls are about: two that the filled caches hold
\* (one probed at time 0, one at time 1) and one that no start cache holds.
CalledUrls == {UrlOf(1), UrlOf(2), UrlOf(CLEANUP_SIZE + 2)}

NoSearch == [pass_no |-> 0, use_extended_search |-> FALSE, extended |-> FALSE,
             dates |-> <<>>, results |-> <<>>]

NoDocs == [documents |-> <<>>, valid_documents |-> <<>>, ret |-> <<>>]

\* orphans: the browsers the run started that self.driver does not reference
\* and that no statement of the program quits.
\* store: what the store-size query of the run did (kind "none": not asked).
NoAnswer == [kind |-> "none", status |-> 0, total |-> 0]

NoHist == [passes |-> <<>>, events |-> <<>>, candidates |-> <<>>, verdicts |-> <<>>, runs |-> 0,
           orphans |-> 0, store |-> NoAnswer]

NoOut == [payload |-> "none", tried |-> 0, downloaded_count |-> 0, total_found |-> 0,
          exit |-> "running", escaped |-> FALSE]

\* No page has been loaded (about:blank).
NoPage == [table |-> <<>>, tbody |-> <<>>]

\* The extractor right after __init__, outside any run.
RunIdle ==
    /\ main_pc = "lib"
    /\ args = [limit |-> 0, check_database_empty |-> TRUE, download |-> FALSE]
    /\ pc = "idle"
    /\ driver = "none"
    /\ today = 0
    /\ page = NoPage
    /\ search = NoSearch
    /\ docs = NoDocs
    /\ hist = NoHist
    /\ out = NoOut

ProbeIdle ==
    /\ probe_resp = Raised("other")
    /\ probe_verdict = "pending"

\* No download has been made: the download directories hold no file.
NoDownload ==
    [calls |-> 0, document_url |-> <<>>, sentence_number |-> <<>>, env |-> NoEnv,
     path |-> <<>>, escaped |-> FALSE, wrote |-> <<>>, written |-> 0]

DlIdle ==
    /\ disk = <<>>
    /\ dl = NoDownload

\* No navigation has been made.
NoNav == [cands |-> <<>>, result |-> FALSE, trace |-> <<>>]

NavIdle == nav = NoNav

CacheInit ==
    /\ ProbeIdle
    /\ DlIdle
    /\ NavIdle
    /\ RunIdle
    /\ now = 1
    /\ \E k \in StartSizes : url_cache = FilledCache(k) /\ last_probe = FilledProbes(k)
    /\ last = NoCall

\* Time passes: by one second less than the TTL, or by the TTL.
Tick ==
    /\ \E d \in {cache_ttl - 1, cache_ttl} :
          /\ now + d <= MaxTicks * cache_ttl + 1
          /\ now' = now + d
    /\ UNCHANGED <<url_cache, last_probe, last, probeVars, runVars, dlVars, navVars>>

Verify ==
    /\ \E url \in CalledUrls, resp \in FewProbeOutcomes : VerifyCall(url, resp)
    /\ UNCHANGED <<now, probeVars, runVars, dlVars, navVars>>

CacheNext == Tick \/ Verify

SpecCache == CacheInit /\ [][CacheNext]_vars

(***************************************************************************)
(* SpecFail: verify(url) called on a new instance while time passes, with  *)
(* a record of the probes that raised.                                     *)
(***************************************************************************)

FailInit ==
    /\ ProbeIdle
    /\ DlIdle
    /\ NavIdle
    /\ RunIdle
    /\ now = 1
    /\ url_cache = <<>> /\ last_probe = <<>>
    /\ last = NoCall

VerifyLogged ==
    /\ \E url \in CalledUrls, resp \in FewProbeOutcomes : LoggedCall(url, resp)
    /\ UNCHANGED <<now, probeVars, runVars, dlVars, navVars>>

FailNext == Tick \/ VerifyLogged

SpecFail == FailInit /\ [][FailNext]_vars

(***************************************************************************)
(* SpecProbe: _verify_document_url applied to every probe outcome.         *)
(***************************************************************************)

ProbeInit ==
    /\ DlIdle
    /\ NavIdle
    /\ probe_resp \in ProbeOutcomes
    /\ probe_verdict = "pending"
    /\ now = 1 /\ url_cache = <<>> /\ last_probe = <<>> /\ last = NoCall
    /\ RunIdle

Classify ==
    /\ probe_verdict = "pending"
    /\ probe_verdict' = IF verify_document_url(probe_resp) THEN "valid" ELSE "invalid"
    /\ UNCHANGED <<probe_resp, cacheVars, runVars, dlVars, navVars>>

NextProbe ==
    /\ probe_verdict # "pending"
    /\ probe_resp' \in ProbeOutcomes
    /\ probe_verdict' = "pending"
    /\ UNCHANGED <<cacheVars, runVars, dlVars, navVars>>

ProbeNext == Classify \/ NextProbe

SpecProbe == ProbeInit /\ [][ProbeNext]_vars

(***************************************************************************)
(* Search window and row extraction                                        *)
(***************************************************************************)

\* A calendar without weekends: every day counts as a business day.
weekday_NeverWeekend(d) == 0

\* datetime.weekday(): 0 is Monday, 5 and 6 are the weekend.
weekday(d) == d % 7

\* The while loop of _get_extraction_dates.
RECURSIVE WalkBack(_, _, _)
WalkBack(current_date, days_left, dates_to_extract) ==
    IF days_left = 0 THEN dates_to_extract
    ELSE IF weekday(current_date) < 5
         THEN WalkBack(current_date - 1, days_left - 1, Append(dates_to_extract, current_date))
         ELSE WalkBack(current_date - 1, days_left, dates_to_extract)

\* CorteConstitucionalExtractor._get_extraction_dates
get_extraction_dates(day, extended_search) ==
    WalkBack(day, IF extended_search THEN EXTENDED_SEARCH_DAYS ELSE NORMAL_SEARCH_DAYS, <<>>)

(***************************************************************************)
(* SpecWindow: _get_extraction_dates on every day of six weeks, both modes. *)
(***************************************************************************)

\* The last day on which the window is generated.
MaxDay == 56

\* The days datetime.now() is drawn from (day 14 is a Monday).
WindowDays == 14..MaxDay

WindowInit ==
    /\ ProbeIdle
    /\ DlIdle
    /\ NavIdle
    /\ now = 1 /\ url_cache = <<>> /\ last_probe = <<>> /\ last = NoCall
    /\ main_pc = "lib"
    /\ args = [limit |-> 0, check_database_empty |-> TRUE, download |-> FALSE]
    /\ pc = "idle"
    /\ driver = "none"
    /\ today \in WindowDays
    /\ page = NoPage
    /\ search = NoSearch
    /\ docs = NoDocs
    /\ hist = NoHist
    /\ out = NoOut

\* dates = self._get_extraction_dates(extended_search)
GenerateWindow ==
    /\ search.dates = <<>>
    /\ \E extended_search \in BOOLEAN :
          search' = [search EXCEPT !.extended = extended_search,
                                   !.dates = get_extraction_dates(today, extended_search)]
    /\ UNCHANGED <<main_pc, args, pc, driver, today, page, docs, hist, out, cacheVars, probeVars, dlVars, navVars>>

\* The next call is made a day later.
NextDay ==
    /\ search.dates # <<>>
    /\ today < MaxDay
    /\ today' = today + 1
    /\ search' = NoSearch
    /\ UNCHANGED <<main_pc, args, pc, driver, page, docs, hist, out, cacheVars, probeVars, dlVars, navVars>>

WindowNext == GenerateWindow \/ NextDay

SpecWindow == WindowInit /\ [][WindowNext]_vars

MAX_ROW_PROCESSING == 50

\* datetime.now().year
current_year == 2025

\* \d
IsDigit(c) == c \in {"0", "1", "2", "3", "4", "5", "6", "7", "8", "9"}

\* How many digits follow one another in s from position i on.
DigitRun(s, i) ==
    LET ends == {n \in 0..(Len(s) - i + 1) :
                    /\ \A k \in i..(i + n - 1) : IsDigit(s[k])
                    /\ i + n <= Len(s) => ~IsDigit(s[i + n])}
    IN  CHOOSE n \in ends : TRUE

\* The text that  prefix\d{1,4}[/-]\d{2,4}  matches at position i of s under
\* re.IGNORECASE (<<>> if it does not match there): one to four digits that
\* a separator follows, then two to four digits, as many as there are.
MatchAt(s, i, prefix) ==
    LET j == i + Len(prefix)
        n1 == DigitRun(s, j)
        k == j + n1 + 1
        n2 == DigitRun(s, k)
    IN  IF /\ j <= Len(s) + 1
           /\ Lower(SubSeq(s, i, j - 1)) = Lower(prefix)
           /\ n1 >= 1 /\ n1 <= 4
           /\ j + n1 <= Len(s) /\ s[j + n1] \in {"/", "-"}
           /\ n2 >= 2
        THEN SubSeq(s, i, k + (IF n2 > 4 THEN 4 ELSE n2) - 1)
        ELSE <<>>

\* re.findall(pattern, s, re.IGNORECASE)[0] for a pattern whose prefix is one
\* of prefixes: the leftmost match (<<>> if there is none).
FirstMatch(s, prefixes) ==
    LET hits == {i \in 1..Len(s) : \E p \in prefixes : MatchAt(s, i, p) # <<>>}
    IN  IF hits = {} THEN <<>>
        ELSE LET i == CHOOSE h \in hits : \A g \in hits : h <= g
             IN  MatchAt(s, i, CHOOSE p \in prefixes : MatchAt(s, i, p) # <<>>)

\* sentence_patterns, in the order they are tried.
sentence_patterns ==
    <<{<<"S", "U", ".">>}, {<<"S", "U", "-">>},
      {<<"T", "-">>, <<"C", "-">>, <<"G", "-">>}, {<<"A", "-">>}>>

\* The sentence number read if the leftmost match of any pattern were taken.
find_sentence_number_Leftmost(row_text) ==
    Upper(FirstMatch(row_text, UNION {sentence_patterns[n] : n \in 1..Len(sentence_patterns)}))

\* The sentence number the Row Extractor reads in a row text: the first
\* match of the first pattern that matches, upper-cased (<<>>: none).
find_sentence_number(row_text) ==
    LET matching == {n \in 1..Len(sentence_patterns) :
                        FirstMatch(row_text, sentence_patterns[n]) # <<>>}
    IN  IF matching = {} THEN <<>>
        ELSE Upper(FirstMatch(row_text,
                              sentence_patterns[CHOOSE n \in matching : \A m \in matching : n <= m]))

\* The calendar of the model: day 0 is Monday 1 September 2025 and the days
\* after day 29 are in October.
DayOfMonth(d) == IF d <= 29 THEN d + 1 ELSE d - 29

MonthOf(d) == IF d <= 29 THEN 9 ELSE 10

\* months_spanish[m], for the two months of the calendar.
months_spanish(m) ==
    IF m = 9 THEN <<"s", "e", "p", "t", "i", "e", "m", "b", "r", "e">>
    ELSE <<"o", "c", "t", "u", "b", "r", "e">>

\* f"{n:02d}"
TwoDigits(n) == IF n < 10 THEN <<"0">> \o Digits(n) ELSE Digits(n)

De == <<" ", "d", "e", " ">>

\* f"{day} de {month_name} de {year}"
target_date_str(d) ==
    Digits(DayOfMonth(d)) \o De \o months_spanish(MonthOf(d)) \o De \o Digits(current_year)

\* current_date.strftime("%d/%m/%Y")
target_date_short(d) ==
    TwoDigits(DayOfMonth(d)) \o <<"/">> \o TwoDigits(MonthOf(d)) \o <<"/">> \o Digits(current_year)

\* f"{day:02d}-{current_date.month:02d}-{year}"
target_date_alt(d) ==
    TwoDigits(DayOfMonth(d)) \o <<"-">> \o TwoDigits(MonthOf(d)) \o <<"-">> \o Digits(current_year)

\* f"{year}-{month.zfill(2)}-{day.zfill(2)}" from the parts of target_date_short.
iso_date(d) ==
    Digits(current_year) \o <<"-">> \o TwoDigits(MonthOf(d)) \o <<"-">> \o TwoDigits(DayOfMonth(d))

\* date_patterns of _extract_sentences_by_date for the day d.
date_patterns(d) ==
    <<target_date_str(d), target_date_short(d), target_date_alt(d),
      Replace(target_date_str(d), De, <<"/">>), iso_date(d)>>

\* date_found: some date pattern, lower-cased, is in the lower-cased row text.
date_found(row_text, d) ==
    \E k \in 1..Len(date_patterns(d)) : Contains(Lower(date_patterns(d)[k]), Lower(row_text))

\* str.strip() for texts whose only white space is the blank.
RECURSIVE Strip(_)
Strip(s) ==
    IF s = <<>> THEN s
    ELSE IF Head(s) = " " THEN Strip(Tail(s))
    ELSE IF s[Len(s)] = " " THEN Strip(SubSeq(s, 1, Len(s) - 1))
    ELSE s

\* The shortest row text the Row Extractor looks at.
MIN_ROW_TEXT == 10

\* The days a row of the model's pages can be dated (September 2025).
PageDays == 0..29

\* A rendered row with what the tests of the Row Extractor give on its text:
\* whether it is too short to be looked at, the days whose date patterns it
\* contains and the sentence number the patterns find in it (<<>>: none).
\* stale: reading row.text raises.
TextRow(row_text) ==
    [text |-> row_text,
     stale |-> FALSE,
     short |-> Len(Strip(row_text)) < MIN_ROW_TEXT,
     dates |-> {d \in PageDays : date_found(Strip(row_text), d)},
     id |-> find_sentence_number(Strip(row_text))]

StaleRow == [text |-> <<>>, stale |-> TRUE, short |-> FALSE, dates |-> {}, id |-> <<>>]

\* The text of a row that names the day in its short form (day 0: a row
\* without date) and the sentence id (<<>>: none).
RowText(day, id) ==
    (IF day = 0 THEN <<"F", "e", "c", "h", "a", " ", "d", "e", " ", "f", "a", "l", "l", "o">>
     ELSE target_date_short(day)) \o <<" ">> \o id \o <<" ", "S", "a", "l", "a">>

Row(day, id) == TextRow(RowText(day, id))

\* The DocumentMetadata built for a matching row; target_date is the date in
\* its title.
make_document(sentence_number, day) ==
    [document_id |-> sentence_number,
     document_type |-> extract_document_type(sentence_number),
     pdf_url |-> get_document_url(sentence_number, current_year),
     html_url |-> get_html_url(sentence_number, current_year),
     target_date |-> day]

\* A Row Extractor whose row loop has no try statement: an exception of a row
\* is caught by the try statement of the selector loop.
scan_exception_handler_NoRowClause(site) == IF site = "row" THEN "selector" ELSE site

\* Which try statement of _extract_sentences_by_date catches an exception
\* raised at a site: the one of the row loop ("row": the next row is
\* scanned), of the selector loop ("selector": the next selector is tried)
\* or of the call ("call": [] is returned).
scan_exception_handler(site) == site

\* The loop over rows[:MAX_ROW_PROCESSING] of one selector, from row i on,
\* with the results list as it is when the loop starts.  how tells the way
\* the loop was left: by the return at the limit, at its end, or by an
\* exception.
RECURSIVE ScanRows(_, _, _, _, _)
ScanRows(rows, i, day, limit, results) ==
    IF i > Len(rows) \/ i > MAX_ROW_PROCESSING THEN [results |-> results, how |-> "end"]
    ELSE IF rows[i].stale
         THEN IF scan_exception_handler("row") = "row"
              THEN ScanRows(rows, i + 1, day, limit, results)
              ELSE [results |-> results, how |-> "raised"]
         ELSE IF \/ rows[i].short
                 \/ day \notin rows[i].dates
                 \/ rows[i].id = <<>>
              THEN ScanRows(rows, i + 1, day, limit, results)
              ELSE LET found == Append(results, make_document(rows[i].id, day))
                   IN  IF Len(found) >= limit THEN [results |-> found, how |-> "limit"]
                       ELSE ScanRows(rows, i + 1, day, limit, found)

\* One iteration of the selector loop on the rows the selector finds.
ScanSelector(rows, day, limit, results) ==
    IF Len(rows) <= 2 THEN [results |-> results, how |-> "end"]
    ELSE ScanRows(rows, 1, day, limit, results)

\* A Row Extractor without the break after a selector that gave results.
extract_sentences_by_date_AllSelectors(pg, day, limit) ==
    LET first == ScanSelector(pg.table, day, limit, <<>>)
    IN  IF first.how = "limit" THEN first.results
        ELSE ScanSelector(pg.tbody, day, limit, first.results).results

\* CorteConstitucionalExtractor._extract_sentences_by_date: the selectors
\* //table//tr and //tbody//tr in turn, the second only if the results list
\* is still empty after the first.
extract_sentences_by_date(pg, day, limit) ==
    LET first == ScanSelector(pg.table, day, limit, <<>>)
    IN  IF first.how = "limit" THEN first.results
        ELSE IF first.how = "end" /\ first.results # <<>> THEN first.results
        ELSE ScanSelector(pg.tbody, day, limit, first.results).results

(***************************************************************************)
(* Session bootstrap, mode decision, navigation                            *)
(***************************************************************************)

\* What one configuration of _setup_driver can do: webdriver.Chrome starts a
\* browser and every call on it succeeds ("ok"); ChromeDriverManager or
\* webdriver.Chrome raises, so that no browser runs ("no-browser"); or the
\* browser is started and a later call on it (set_page_load_timeout,
\* implicitly_wait, execute_script, get) raises ("unconfigured"): no statement
\* of _setup_driver quits that browser.
SetupOutcomes == {"ok", "no-browser", "unconfigured"}

Started(outcome) == IF outcome = "no-browser" THEN 0 ELSE 1

\* CorteConstitucionalExtractor._setup_driver: the primary configuration and,
\* if it raises, the simplified one; if that raises too, the call raises.
\* orphans is the number of browsers the call started and did not return.
setup_driver(primary, fallback) ==
    IF primary = "ok"
    THEN [session |-> TRUE, attempts |-> <<"primary-ok">>, orphans |-> 0]
    ELSE IF fallback = "ok"
    THEN [session |-> TRUE, attempts |-> <<"primary-failed", "fallback-ok">>,
          orphans |-> Started(primary)]
    ELSE [session |-> FALSE, attempts |-> <<"primary-failed", "fallback-failed">>,
          orphans |-> Started(primary) + Started(fallback)]

\* What the store-size query can do: raise, or answer with a status and a total.
StoreAnswers ==
    {[kind |-> "raises", status |-> 0, total |-> 0],
     [kind |-> "response", status |-> 500, total |-> 0]}
      \cup {[kind |-> "response", status |-> 200, total |-> t] : t \in {0, 4, 5}}

\* A mode decision that takes a store it cannot ask for an empty one.
check_if_database_empty_UnknownIsEmpty(answer) ==
    IF answer.kind = "raises" THEN TRUE
    ELSE IF answer.status = 200 THEN answer.total < 5
    ELSE TRUE

\* A mode decision whose threshold is off by one: a store of 5 counts as empty.
check_if_database_empty_AtMost5(answer) ==
    IF answer.kind = "raises" THEN FALSE
    ELSE IF answer.status = 200 THEN answer.total <= 5
    ELSE FALSE

\* CorteConstitucionalExtractor._check_if_database_empty
check_if_database_empty(answer) ==
    IF answer.kind = "raises" THEN FALSE
    ELSE IF answer.status = 200 THEN answer.total < 5
    ELSE FALSE

\* ExtractorConfig.JURISPRUDENCIA_PATHS, by position.
JURISPRUDENCIA_PATHS == <<"/jurisprudencia/", "/relatoria/", "/">>

\* ExtractorConfig.CONTENT_WAIT_TIMEOUT and SCROLL_DELAY, in tenths of a second.
CONTENT_WAIT_TIMEOUT == 30

SCROLL_DELAY == 3

\* The longest one execute_script call of the polling loop takes, in tenths
\* of a second.
MaxScriptCost == 2

\* What the page does during one call of _wait_for_angular_load: the
\* document-ready wait and the application-root wait each end with their
\* condition met ("ok"), with a TimeoutException ("timeout") or with another
\* exception of the driver ("raises"); content shows at the content_at-th
\* poll (0: never); every poll takes script_cost.
WaitEnv(ready, root, content_at, script_cost) ==
    [ready |-> ready, root |-> root, content_at |-> content_at, script_cost |-> script_cost]

\* No call of _wait_for_angular_load was made.
NoWait == [outcome |-> "none", polls |-> 0, elapsed |-> 0, script_cost |-> 0]

\* A readiness wait without its except clause.
wait_except_clause_None(kind) == FALSE

\* The except clause of _wait_for_angular_load: TimeoutException only.
wait_except_clause(kind) == kind = "timeout"

\* The while loop of _wait_for_angular_load: the clock is read at the head of
\* every iteration, then the script runs, then the loop sleeps.
RECURSIVE PollContent(_, _, _)
PollContent(env, polls, elapsed) ==
    IF ~(elapsed < CONTENT_WAIT_TIMEOUT)
    THEN [outcome |-> "deadline", polls |-> polls, elapsed |-> elapsed,
          script_cost |-> env.script_cost]
    ELSE IF env.content_at # 0 /\ polls + 1 >= env.content_at
         THEN [outcome |-> "content", polls |-> polls + 1,
               elapsed |-> elapsed + env.script_cost, script_cost |-> env.script_cost]
         ELSE PollContent(env, polls + 1, elapsed + env.script_cost + SCROLL_DELAY)

\* CorteConstitucionalExtractor._wait_for_angular_load: outcome "raised" is an
\* exception that leaves the call, "timeout" a TimeoutException it caught.
wait_for_angular_load(env) ==
    LET failed == IF env.ready # "ok" THEN env.ready
                  ELSE IF env.root # "ok" THEN env.root
                  ELSE "no"
    IN  IF failed = "no" THEN PollContent(env, 0, 0)
        ELSE [NoWait EXCEPT !.outcome = IF wait_except_clause(failed) THEN "timeout"
                                        ELSE "raised"]

\* What one candidate entry point does: driver.get loads it or raises; the
\* page during the wait that follows; the action control is absent ("none"),
\* not displayed or not enabled ("hidden"), cannot be clicked by either click
\* ("unclickable") or is clicked ("clickable"); the page during the wait
\* that follows the click.  After a click the control is gone from the page.
Candidate(get, wait, button, post) ==
    [get |-> get, wait |-> wait, button |-> button, post |-> post]

Buttons == {"none", "hidden", "unclickable", "clickable"}

\* CorteConstitucionalExtractor._click_ver_ultimas_sentencias: an exception
\* of the wait that follows the click is caught by the except clause of the
\* selector loop, which goes on with the next selector.
click_ver_ultimas_sentencias(cand) ==
    IF cand.button = "clickable"
    THEN LET p == wait_for_angular_load(cand.post)
         IN  [clicked |-> TRUE, post |-> p, result |-> p.outcome # "raised"]
    ELSE [clicked |-> FALSE, post |-> NoWait, result |-> FALSE]

\* One iteration of the loop of _navigate_to_jurisprudencia on candidate i.
Visit(i, cand) ==
    LET w == IF cand.get = "raises" THEN NoWait ELSE wait_for_angular_load(cand.wait)
        searched == cand.get # "raises" /\ w.outcome # "raised"
        c == IF searched THEN click_ver_ultimas_sentencias(cand)
             ELSE [clicked |-> FALSE, post |-> NoWait, result |-> FALSE]
    IN  [candidate |-> i, loaded |-> cand.get # "raises", wait |-> w, searched |-> searched,
         clicked |-> c.clicked, post |-> c.post, result |-> c.result]

RECURSIVE VisitFrom(_, _, _)
VisitFrom(cands, i, trace) ==
    IF i > Len(cands) THEN [result |-> FALSE, trace |-> trace]
    ELSE LET v == Visit(i, cands[i])
         IN  IF v.result THEN [result |-> TRUE, trace |-> Append(trace, v)]
             ELSE VisitFrom(cands, i + 1, Append(trace, v))

\* CorteConstitucionalExtractor._navigate_to_jurisprudencia, given what each
\* candidate does: what it returns and the visits it made, in order.
navigate_to_jurisprudencia(cands) == VisitFrom(cands, 1, <<>>)

\* The waits the page answers at once, and those of a page that never shows
\* content.
QuickWait == WaitEnv("ok", "ok", 1, 0)

SlowWaits == {WaitEnv("ok", "ok", 0, c) : c \in 0..MaxScriptCost}

\* What one candidate entry point can do, by name: driver.get raises, no
\* usable button is found, a button is clicked, or a button is clicked and
\* the wait after the click raises.
NavOutcomes == {"raises", "no-button", "clicked", "clicked-raises"}

\* The outcomes a run meets: one for each way an entry point can end.
FewNavOutcomes == {"raises", "no-button", "clicked"}

CandidateOf(outcome) ==
    CASE outcome = "raises"         -> Candidate("raises", QuickWait, "none", QuickWait)
      [] outcome = "no-button"      -> Candidate("ok", QuickWait, "none", QuickWait)
      [] outcome = "clicked"        -> Candidate("ok", QuickWait, "clickable", QuickWait)
      [] outcome = "clicked-raises" -> Candidate("ok", QuickWait, "clickable",
                                                 WaitEnv("raises", "ok", 1, 0))

\* No except clause anywhere: the exception leaves extract_latest_sentences.
exception_handler_None(site) == "none"

\* Where an exception raised inside _extract_with_date_filtering is caught:
\* by its own except clause ("pass"); the except clause of
\* extract_latest_sentences ("run") is behind it.
exception_handler(site) == IF site = "pass" THEN "pass" ELSE "run"

(***************************************************************************)
(* Spec: runs of extract_latest_sentences, called directly on one          *)
(* instance or through run_extractor.main.                                 *)
(***************************************************************************)

\* How many runs are made on one instance.
MaxRuns == 2

\* The largest limit a run is asked for.
MaxLimit == 2

\* How many times the clock advances by a TTL.
MaxWaits == 1

ID_T == <<"T", "-", "1", "/", "2", "5">>
ID_SU == <<"S", "U", ".", "2", "/", "2", "5">>
ID_C == <<"C", "-", "3", "/", "2", "5">>

\* The day the instance is used on: a Wednesday or a Sunday.
Todays == {23, 27}

Header3 == Row(0, <<>>)

\* The pages a successful click can show.
Pages ==
    {[table |-> <<>>, tbody |-> <<>>],
     [table |-> <<Header3, Row(23, ID_T), Row(22, ID_SU)>>,
      tbody |-> <<Row(23, ID_T), Row(22, ID_SU)>>],
     [table |-> <<Header3, Row(18, ID_C), Row(18, ID_T), Row(18, <<>>)>>,
      tbody |-> <<Row(18, ID_C), Row(18, ID_T), Row(18, <<>>)>>],
     [table |-> <<Row(23, ID_T), Row(23, ID_SU)>>,
      tbody |-> <<Row(23, ID_T), Row(0, ID_C), Row(23, ID_T)>>]}

\* The day of the end-to-end runs: Monday 15 September 2025.
E2EDay == 14

\* The five forms a row can show the date d in.
DateForms(d) ==
    {target_date_str(d), target_date_short(d), target_date_alt(d),
     Replace(target_date_str(d), De, <<"/">>), iso_date(d)}

\* The pages of the end-to-end runs: three rows, of which the last names
\* the day of the run or Friday 5 September, in one of the forms, and the
\* sentence C-3/25.
E2EPages ==
    {[table |-> <<Header3, Header3, TextRow(f \o <<" ">> \o ID_C \o <<" ", "S", "a", "l", "a">>)>>,
      tbody |-> <<>>] : f \in DateForms(E2EDay) \cup DateForms(E2EDay - 10)}

\* The pages a successful click can show on a day.
PagesOn(day) == IF day = E2EDay THEN E2EPages ELSE Pages

Min(a, b) == IF a < b THEN a ELSE b

Log(h, e) == [h EXCEPT !.events = @ \o e]

Init ==
    /\ ProbeIdle
    /\ DlIdle
    /\ NavIdle
    /\ now = 1 /\ url_cache = <<>> /\ last_probe = <<>> /\ last = NoCall
    /\ main_pc \in {"lib", "start"}
    /\ args = [limit |-> 0, check_database_empty |-> TRUE, download |-> FALSE]
    /\ pc = "idle"
    /\ driver = "none"
    /\ today \in Todays
    /\ page = NoPage
    /\ search = NoSearch
    /\ docs = NoDocs
    /\ hist = NoHist
    /\ out = NoOut

\* The entry of extract_latest_sentences(limit, check_database_empty).  The
\* page left by an earlier run is not read before the next successful
\* navigation replaces it, so it is forgotten here, and so is the record of
\* the latest verification call, which belongs to the run that made it.
BeginRun(limit, check, download) ==
    /\ args' = [limit |-> limit, check_database_empty |-> check, download |-> download]
    /\ pc' = "mode"
    /\ search' = NoSearch
    /\ docs' = NoDocs
    /\ hist' = [NoHist EXCEPT !.runs = hist.runs + 1]
    /\ page' = NoPage
    /\ last' = NoCall
    /\ UNCHANGED <<today, driver, now, url_cache, last_probe, probeVars, dlVars, navVars>>

\* A caller that holds the instance calls extract_latest_sentences.
LibRun ==
    /\ main_pc = "lib"
    /\ pc \in {"idle", "returned"}
    /\ hist.runs < MaxRuns
    /\ \E limit \in 0..MaxLimit, check \in BOOLEAN : BeginRun(limit, check, FALSE)
    /\ UNCHANGED <<main_pc, out>>

\* main: parse the arguments, construct the extractor, call
\* extract_latest_sentences(args.limit); the constructor may raise.
\* parse_args is called before the try statement: on arguments it rejects
\* (no --source, a --limit that is not an integer) argparse writes its usage
\* text to the standard error and leaves with SystemExit(2).
MainStart ==
    /\ main_pc = "start"
    /\ \/ /\ \E limit \in 0..MaxLimit, download \in BOOLEAN : BeginRun(limit, TRUE, download)
          /\ main_pc' = "extract"
          /\ UNCHANGED out
       \/ /\ main_pc' = "except"
          /\ UNCHANGED <<args, pc, today, search, docs, hist, page, driver, cacheVars, probeVars, out, dlVars, navVars>>
       \/ /\ main_pc' = "done"
          /\ out' = [out EXCEPT !.exit = "2"]
          /\ UNCHANGED <<args, pc, today, search, docs, hist, page, driver, cacheVars, probeVars, dlVars, navVars>>

\* The mode decision of extract_latest_sentences.
DecideMode ==
    /\ pc = "mode"
    /\ \E answer \in StoreAnswers :
          LET use == IF args.check_database_empty THEN check_if_database_empty(answer)
                     ELSE FALSE
          IN  /\ search' = [search EXCEPT !.use_extended_search = use, !.extended = use,
                                          !.pass_no = 1]
              /\ hist' = IF ~args.check_database_empty THEN hist
                         ELSE [Log(hist, IF answer.kind = "raises" THEN <<"mode-fault">>
                                         ELSE IF answer.status # 200 THEN <<"mode-status">>
                                         ELSE <<>>)
                               EXCEPT !.store = answer]
    /\ pc' = "pass"
    /\ UNCHANGED <<main_pc, args, driver, today, page, docs, out, cacheVars, probeVars, dlVars, navVars>>

\* The return of _extract_with_date_filtering to extract_latest_sentences.
\* how tells which return statement was taken.
ReturnFromPass(h, result, how) ==
    /\ docs' = [docs EXCEPT !.documents = result]
    /\ hist' = [h EXCEPT !.passes = Append(@, [extended |-> search.extended,
                                               found |-> Len(result),
                                               how |-> how])]
    /\ pc' = "pass_end"

\* The head of _extract_with_date_filtering: acquire the session if the
\* instance has none, then compute the dates.
EnterPass ==
    /\ pc = "pass"
    /\ IF driver = "none"
       THEN \E primary, fallback \in SetupOutcomes :
               LET got == setup_driver(primary, fallback)
               IN  /\ hist' = [Log(Log(hist, <<"pass">>), got.attempts)
                                EXCEPT !.orphans = @ + got.orphans]
                   /\ IF got.session
                      THEN /\ driver' = "live"
                           /\ pc' = "navigate"
                      ELSE /\ driver' = driver
                           /\ pc' = "raise"
       ELSE /\ hist' = Log(hist, <<"pass">>)
            /\ pc' = "navigate"
            /\ driver' = driver
    /\ search' = [search EXCEPT !.dates = get_extraction_dates(today, search.extended),
                                !.results = <<>>]
    /\ UNCHANGED <<main_pc, args, today, page, docs, out, cacheVars, probeVars, dlVars, navVars>>

\* An exception raised inside the pass reaches its handler.
Unwind ==
    /\ pc = "raise"
    /\ LET handler == exception_handler("pass")
       IN  IF handler = "pass" THEN ReturnFromPass(hist, <<>>, "except")
           ELSE IF handler = "run"
                THEN /\ pc' = "returned"
                     /\ docs' = [docs EXCEPT !.ret = <<>>]
                     /\ hist' = hist
                ELSE /\ pc' = "escaped"
                     /\ UNCHANGED <<docs, hist>>
    /\ UNCHANGED <<main_pc, args, driver, today, page, search, out, cacheVars, probeVars, dlVars, navVars>>

\* _navigate_to_jurisprudencia, with what each candidate entry point does.
Navigate ==
    /\ pc = "navigate"
    /\ \E outcomes \in [1..Len(JURISPRUDENCIA_PATHS) -> FewNavOutcomes] :
          IF navigate_to_jurisprudencia([i \in 1..Len(JURISPRUDENCIA_PATHS) |->
                                            CandidateOf(outcomes[i])]).result
          THEN /\ page' \in PagesOn(today)
               /\ pc' = "search"
               /\ hist' = Log(hist, <<"navigate-ok">>)
               /\ docs' = docs
          ELSE /\ page' = page
               /\ ReturnFromPass(Log(hist, <<"navigate-exhausted">>), <<>>, "not-success")
    /\ UNCHANGED <<main_pc, args, driver, today, search, out, cacheVars, probeVars, dlVars, navVars>>

\* A date loop without the break: every date is searched, each for the
\* full limit.
SearchDate_NoBreak ==
    /\ pc = "search"
    /\ search.dates # <<>>
    /\ LET date_results == extract_sentences_by_date(page, Head(search.dates), args.limit)
       IN  search' = [search EXCEPT !.dates = Tail(@), !.results = @ \o date_results]
    /\ hist' = Log(hist, <<"rows">>)
    /\ UNCHANGED <<main_pc, args, pc, driver, today, page, docs, out, cacheVars, probeVars, dlVars, navVars>>

\* A date loop that puts the documents of a date before those of the dates
\* searched earlier.
SearchDate_Prepend ==
    /\ pc = "search"
    /\ search.dates # <<>>
    /\ Len(search.results) < args.limit
    /\ LET date_results == extract_sentences_by_date(page, Head(search.dates),
                                                     args.limit - Len(search.results))
       IN  search' = [search EXCEPT !.dates = Tail(@), !.results = date_results \o @]
    /\ hist' = Log(hist, <<"rows">>)
    /\ UNCHANGED <<main_pc, args, pc, driver, today, page, docs, out, cacheVars, probeVars, dlVars, navVars>>

\* One iteration of the date loop of _extract_with_date_filtering.
SearchDate ==
    /\ pc = "search"
    /\ search.dates # <<>>
    /\ Len(search.results) < args.limit
    /\ LET date_results == extract_sentences_by_date(page, Head(search.dates),
                                                     args.limit - Len(search.results))
       IN  search' = [search EXCEPT !.dates = Tail(@), !.results = @ \o date_results]
    /\ hist' = Log(hist, <<"rows">>)
    /\ UNCHANGED <<main_pc, args, pc, driver, today, page, docs, out, cacheVars, probeVars, dlVars, navVars>>

\* The end of the date loop: return results[:limit].
SearchDone ==
    /\ pc = "search"
    /\ search.dates = <<>> \/ Len(search.results) >= args.limit
    /\ ReturnFromPass(hist, SubSeq(search.results, 1, Min(args.limit, Len(search.results))),
                      "searched")
    /\ UNCHANGED <<main_pc, args, driver, today, page, search, out, cacheVars, probeVars, dlVars, navVars>>

\* An escalation that does not look at the mode the first pass ran in.
AfterPass_AlwaysEscalate ==
    /\ pc = "pass_end"
    /\ IF search.pass_no = 1 /\ docs.documents = <<>>
       THEN /\ search' = [search EXCEPT !.pass_no = 2, !.extended = TRUE]
            /\ pc' = "pass"
            /\ UNCHANGED <<docs, hist>>
       ELSE IF docs.documents # <<>>
            THEN /\ pc' = "filter"
                 /\ docs' = [docs EXCEPT !.valid_documents = <<>>]
                 /\ hist' = [hist EXCEPT !.candidates = docs.documents]
                 /\ search' = search
            ELSE /\ pc' = "returned"
                 /\ docs' = [docs EXCEPT !.ret = docs.documents]
                 /\ UNCHANGED <<search, hist>>
    /\ UNCHANGED <<main_pc, args, driver, today, page, out, cacheVars, probeVars, dlVars, navVars>>

\* extract_latest_sentences after a pass has returned: escalate, filter or finish.
AfterPass ==
    /\ pc = "pass_end"
    /\ IF search.pass_no = 1 /\ docs.documents = <<>> /\ ~search.use_extended_search
       THEN /\ search' = [search EXCEPT !.pass_no = 2, !.extended = TRUE]
            /\ pc' = "pass"
            /\ UNCHANGED <<docs, hist>>
       ELSE IF docs.documents # <<>>
            THEN /\ pc' = "filter"
                 /\ docs' = [docs EXCEPT !.valid_documents = <<>>]
                 /\ hist' = [hist EXCEPT !.candidates = docs.documents]
                 /\ search' = search
            ELSE /\ pc' = "returned"
                 /\ docs' = [docs EXCEPT !.ret = docs.documents]
                 /\ UNCHANGED <<search, hist>>
    /\ UNCHANGED <<main_pc, args, driver, today, page, out, cacheVars, probeVars, dlVars, navVars>>

\* One iteration of the validation loop.
FilterStep ==
    /\ pc = "filter"
    /\ Len(hist.verdicts) < Len(docs.documents)
    /\ LET doc == docs.documents[Len(hist.verdicts) + 1]
       IN  IF doc.pdf_url # <<>>
           THEN /\ \E resp \in FewProbeOutcomes : VerifyCall(doc.pdf_url, resp)
                /\ hist' = [hist EXCEPT !.verdicts = Append(@, last'.result)]
                /\ docs' = IF last'.result
                           THEN [docs EXCEPT !.valid_documents = Append(@, doc)]
                           ELSE docs
           ELSE /\ hist' = [hist EXCEPT !.verdicts = Append(@, FALSE)]
                /\ UNCHANGED <<docs, url_cache, last_probe, last>>
    /\ UNCHANGED <<main_pc, args, pc, driver, today, page, search, out, now, probeVars, dlVars, navVars>>

\* A validation loop whose result is thrown away: the candidates are returned.
FilterDone_Unfiltered ==
    /\ pc = "filter"
    /\ Len(hist.verdicts) = Len(docs.documents)
    /\ docs' = [docs EXCEPT !.ret = docs.documents]
    /\ pc' = "returned"
    /\ UNCHANGED <<main_pc, args, driver, today, page, search, hist, out, cacheVars, probeVars, dlVars, navVars>>

\* A validation loop after which a run whose candidates were all rejected
\* goes on to the extended pass.
FilterDone_EscalateOnEmpty ==
    /\ pc = "filter"
    /\ Len(hist.verdicts) = Len(docs.documents)
    /\ IF docs.valid_documents = <<>> /\ search.pass_no = 1 /\ ~search.use_extended_search
       THEN /\ search' = [search EXCEPT !.pass_no = 2, !.extended = TRUE]
            /\ pc' = "pass"
            /\ docs' = docs
       ELSE /\ docs' = [docs EXCEPT !.documents = docs.valid_documents, !.ret = docs.valid_documents]
            /\ pc' = "returned"
            /\ search' = search
    /\ UNCHANGED <<main_pc, args, driver, today, page, hist, out, cacheVars, probeVars, dlVars, navVars>>

\* The end of the validation loop and the return of the run.
FilterDone ==
    /\ pc = "filter"
    /\ Len(hist.verdicts) = Len(docs.documents)
    /\ docs' = [docs EXCEPT !.documents = docs.valid_documents, !.ret = docs.valid_documents]
    /\ pc' = "returned"
    /\ UNCHANGED <<main_pc, args, driver, today, page, search, hist, out, cacheVars, probeVars, dlVars, navVars>>

\* Time passes by a TTL between two runs on the instance, while the verdicts
\* of the earlier run are cached.
Wait ==
    /\ pc = "returned"
    /\ main_pc = "lib"
    /\ hist.runs < MaxRuns
    /\ now + cache_ttl <= MaxWaits * cache_ttl + 1
    /\ now' = now + cache_ttl
    /\ UNCHANGED <<url_cache, last_probe, last, probeVars, runVars, dlVars, navVars>>

(***************************************************************************)
(* run_extractor.main after the extraction                                 *)
(***************************************************************************)

\* extract_latest_sentences has returned to main (or let an exception out).
MainAfterRun ==
    /\ main_pc = "extract"
    /\ pc \in {"returned", "escaped"}
    /\ main_pc' = IF pc = "escaped" THEN "except"
                  ELSE IF args.download /\ docs.ret # <<>> THEN "download"
                  ELSE "serialize"
    /\ UNCHANGED <<args, pc, driver, today, page, search, docs, hist, out, cacheVars, probeVars, dlVars, navVars>>

\* One iteration of the download loop: download_document returns a path or
\* None; an exception it lets out is caught inside the loop.
MainDownload ==
    /\ main_pc = "download"
    /\ out.tried < Len(docs.ret)
    /\ LET doc == docs.ret[out.tried + 1]
       IN  \E env \in FewDlEnvs :
              /\ DownloadCall(doc.pdf_url, doc.document_id, env)
              /\ out' = [out EXCEPT !.tried = @ + 1,
                                    !.downloaded_count = IF dl'.path # <<>> THEN @ + 1 ELSE @]
    /\ UNCHANGED <<main_pc, args, pc, driver, today, page, search, docs, hist, cacheVars, probeVars, navVars>>

MainDownloadDone ==
    /\ main_pc = "download"
    /\ out.tried = Len(docs.ret)
    /\ main_pc' = "serialize"
    /\ UNCHANGED <<args, pc, driver, today, page, search, docs, hist, out, cacheVars, probeVars, dlVars, navVars>>

\* Serialize the documents and print the success payload; writing to the
\* standard output may raise.
MainPrint ==
    /\ main_pc = "serialize"
    /\ \/ /\ out' = [out EXCEPT !.payload = "success", !.total_found = Len(docs.ret)]
          /\ main_pc' = "cleanup"
       \/ /\ main_pc' = "except"
          /\ out' = out
    /\ UNCHANGED <<args, pc, driver, today, page, search, docs, hist, cacheVars, probeVars, dlVars, navVars>>

\* The cleanup block after the try statement: quit the driver if there is one.
MainCleanup ==
    /\ main_pc = "cleanup"
    /\ driver' = IF driver = "live" THEN "quit" ELSE driver
    /\ main_pc' = "done"
    /\ out' = [out EXCEPT !.exit = "0"]
    /\ UNCHANGED <<args, pc, today, page, search, docs, hist, cacheVars, probeVars, dlVars, navVars>>

\* The except clause of main: print the failure payload and sys.exit(1).
\* SystemExit leaves main at once, so the cleanup block is not run; whether
\* the interpreter finalizes the extractor (__del__ quits the driver) before
\* the process ends is not guaranteed by Python.  The print of the failure
\* payload is inside the except clause: what it raises (the standard output
\* is closed) is handled by nobody and ends the process with a traceback.
MainExcept ==
    /\ main_pc = "except"
    /\ \E finalized \in BOOLEAN :
          driver' = IF finalized /\ driver = "live" THEN "quit" ELSE driver
    /\ main_pc' = "done"
    /\ \/ out' = [out EXCEPT !.payload = "failure", !.downloaded_count = 0, !.total_found = 0,
                             !.exit = "1"]
       \/ out' = [out EXCEPT !.exit = "1", !.escaped = TRUE]
    /\ UNCHANGED <<args, pc, today, page, search, docs, hist, cacheVars, probeVars, dlVars, navVars>>

Next ==
    \/ LibRun \/ MainStart \/ DecideMode \/ EnterPass \/ Unwind \/ Navigate
    \/ SearchDate \/ SearchDone \/ AfterPass \/ FilterStep \/ FilterDone \/ Wait
    \/ MainAfterRun \/ MainDownload \/ MainDownloadDone \/ MainPrint \/ MainCleanup
    \/ MainExcept

Spec == Init /\ [][Next]_vars

(***************************************************************************)
(* SpecE2E: extract_latest_sentences called by a library caller on Monday  *)
(* 15 September 2025, on a site whose page has three rows.                 *)
(***************************************************************************)

E2EInit ==
    /\ ProbeIdle
    /\ DlIdle
    /\ NavIdle
    /\ now = 1 /\ url_cache = <<>> /\ last_probe = <<>> /\ last = NoCall
    /\ main_pc = "lib"
    /\ args = [limit |-> 0, check_database_empty |-> TRUE, download |-> FALSE]
    /\ pc = "idle"
    /\ driver = "none"
    /\ today = E2EDay
    /\ page = NoPage
    /\ search = NoSearch
    /\ docs = NoDocs
    /\ hist = NoHist
    /\ out = NoOut

E2ENext ==
    \/ LibRun \/ DecideMode \/ EnterPass \/ Unwind \/ Navigate
    \/ SearchDate \/ SearchDone \/ AfterPass \/ FilterStep \/ FilterDone

SpecE2E == E2EInit /\ [][E2ENext]_vars

(***************************************************************************)
(* SpecDownload: download_document called on one instance, with every      *)
(* transport outcome and a fault at each file-system call.                 *)
(***************************************************************************)

\* How many downloads one behaviour makes.
MaxDownloads == 1

\* A url that does not end in .rtf.
UrlDocx == BASE_URL \o <<"/", "d", "o", "c", "/", "a">> \o DotDocx

\* The (document_url, sentence_number) pairs download_document is called
\* with: what main passes for a document, a url with another suffix, and
\* a document without url.
DlTargets ==
    {<<get_document_url(ID_SU, current_year), ID_SU>>, <<UrlDocx, ID_T>>, <<<<>>, ID_T>>}

\* The download directory at the start: empty, or holding the file an
\* earlier download of SU.2/25 stored.
StartDisks ==
    {<<>>,
     DictSet(<<>>, rtf_dir \o normalize_filename(ID_SU) \o DotRtf,
             [body |-> Body(MagicRtf, <<>>, 0, MIN_FILE_SIZE), size |-> MIN_FILE_SIZE])}

DoctypeUpper == <<"<", "!", "D", "O", "C", "T", "Y", "P", "E", " ", "H", "T", "M", "L">>

\* Bodies below, at and above the size threshold, with either signature or
\* none, and with an HTML marker at the start, at the very end of the
\* preview, or reaching one byte beyond it.
DlBodies ==
    {Body(<<>>, <<>>, 0, 0),
     Body(MagicRtf, <<>>, 0, MIN_FILE_SIZE \div 2),
     Body(MagicRtf, <<>>, 0, MIN_FILE_SIZE - 1),
     Body(MagicRtf, <<>>, 0, MIN_FILE_SIZE),
     Body(MagicZip, <<>>, 0, PREVIEW_BYTES + MIN_FILE_SIZE),
     Body(<<>>, <<>>, 0, PREVIEW_BYTES + MIN_FILE_SIZE),
     Body(MagicZip, HtmlTag, 20, MIN_FILE_SIZE \div 2),
     Body(<<>>, DoctypeUpper, 1, PREVIEW_BYTES + MIN_FILE_SIZE),
     Body(MagicRtf, HtmlTag, PREVIEW_BYTES - Len(HtmlTag) + 1, PREVIEW_BYTES + MIN_FILE_SIZE),
     Body(MagicRtf, HtmlTag, PREVIEW_BYTES - Len(HtmlTag) + 2, PREVIEW_BYTES + MIN_FILE_SIZE)}

DlContentTypes == {NoHeader, Header(ApplicationOctetStream), Header(CtHtmlCharset), Header(CtHtmlUpper)}

\* A fault at each file-system call; a failed write leaves nothing or half
\* of the body in the file.
FsFaults(b) ==
    {FsFault(at, 0) : at \in {"mkdir", "open", "write", "stat", "unlink"}}
      \cup {FsFault("write", b.size \div 2)}

DlEnvs ==
    {Env(DlRaised(k), NoFsFault) : k \in {"timeout", "connection"}}
      \cup {Env(DlAnswered(st, NoHeader, Body(<<>>, <<>>, 0, PREVIEW_BYTES + MIN_FILE_SIZE)), NoFsFault) :
                st \in {404, 500}}
      \cup {Env(DlAnswered(200, ct, b), NoFsFault) : ct \in DlContentTypes, b \in DlBodies}
      \cup UNION {{Env(DlAnswered(200, NoHeader, b), f) : f \in FsFaults(b)} :
                    b \in {Body(MagicRtf, <<>>, 0, MIN_FILE_SIZE \div 2),
                           Body(MagicZip, <<>>, 0, PREVIEW_BYTES + MIN_FILE_SIZE)}}

DownloadInit ==
    /\ ProbeIdle
    /\ RunIdle
    /\ now = 1 /\ url_cache = <<>> /\ last_probe = <<>> /\ last = NoCall
    /\ disk \in StartDisks
    /\ dl = NoDownload
    /\ NavIdle

Download ==
    /\ dl.calls < MaxDownloads
    /\ \E target \in DlTargets, env \in DlEnvs : DownloadCall(target[1], target[2], env)
    /\ UNCHANGED <<cacheVars, probeVars, navVars, runVars>>

SpecDownload == DownloadInit /\ [][Download]_vars

(***************************************************************************)
(* SpecRows: the Row Extractor on a results table whose one data row names *)
(* a sentence, for every shape of identifier the patterns accept.          *)
(***************************************************************************)

\* The longest sentence number (in digits) written in a row.
MaxNumberLen == 4

\* The court prefixes as a page writes them, in either case.
RowPrefixes ==
    {<<"T", "-">>, <<"C", "-">>, <<"G", "-">>, <<"A", "-">>, <<"S", "U", ".">>, <<"S", "U", "-">>,
     <<"t", "-">>, <<"s", "u", ".">>, <<"S", "u", "-">>}

\* Sentence numbers of one digit up to MaxNumberLen digits.
RowNumbers == {SubSeq(<<"0", "4", "5", "7", "3", "1">>, 1, n) : n \in 1..MaxNumberLen}

RowSeparators == {"/", "-"}

RowYears == {<<"2", "5">>, <<"2", "0", "2", "5">>}

\* The day the rows are dated.
RowDay == 23

\* The row texts: a date, the sentence and the rest of the row.
RowTexts ==
    {target_date_alt(RowDay) \o <<" ">> \o p \o n \o <<sep>> \o y \o <<" ", "S", "a", "l", "a">> :
        p \in RowPrefixes, n \in RowNumbers, sep \in RowSeparators, y \in RowYears}

\* Row texts that name two sentences, in either order and case.
MixedIds ==
    {<<"T", "-", "1", "/", "2", "5">>, <<"s", "u", ".", "2", "/", "2", "5">>,
     <<"S", "U", "-", "3", "/", "2", "5">>, <<"A", "-", "4", "/", "2", "5">>,
     <<"c", "-", "5", "/", "2", "5">>}

MixedTexts ==
    {target_date_short(RowDay) \o <<" ">> \o a \o <<" ", "y", " ">> \o b : a \in MixedIds, b \in MixedIds}

\* The page that shows row_text under two header rows.
RowPage(row_text) ==
    [table |-> <<Header3, Header3, TextRow(row_text)>>, tbody |-> <<>>]

\* The rows of the scanned pages: a header, a row of the day without
\* sentence, a row that raises, rows of the day with a sentence and a row
\* of the day before.
ScanPool ==
    {Header3, Row(RowDay, <<>>), StaleRow, Row(RowDay, ID_T), Row(RowDay, ID_SU),
     Row(RowDay - 1, ID_C)}

\* What //tbody//tr finds on the scanned pages.
ScanBodies == {<<>>, <<Row(RowDay, ID_C), Row(RowDay, ID_T), Row(RowDay, ID_T)>>}

\* A table of MAX_ROW_PROCESSING + 1 rows whose last two rows are the only
\* ones with a sentence.
LongTable ==
    [i \in 1..(MAX_ROW_PROCESSING + 1) |->
        IF i < MAX_ROW_PROCESSING THEN Header3
        ELSE IF i = MAX_ROW_PROCESSING THEN Row(RowDay, ID_T)
        ELSE Row(RowDay, ID_SU)]

\* The pages the Row Extractor is called on.
RowPages ==
    {RowPage(t) : t \in RowTexts \cup MixedTexts}
        \cup {[table |-> <<r1, r2>>, tbody |-> b] : r1 \in ScanPool, r2 \in ScanPool, b \in ScanBodies}
        \cup {[table |-> <<r1, r2, r3>>, tbody |-> b] :
                 r1 \in ScanPool, r2 \in ScanPool, r3 \in ScanPool, b \in ScanBodies}
        \cup {[table |-> LongTable, tbody |-> <<>>]}

RowsInit ==
    /\ ProbeIdle
    /\ DlIdle
    /\ NavIdle
    /\ now = 1 /\ url_cache = <<>> /\ last_probe = <<>> /\ last = NoCall
    /\ main_pc = "lib"
    /\ args \in {[limit |-> l, check_database_empty |-> TRUE, download |-> FALSE] : l \in 1..MaxLimit}
    /\ pc = "idle"
    /\ driver = "live"
    /\ today = RowDay
    /\ page = NoPage
    /\ search = NoSearch
    /\ docs = NoDocs
    /\ hist = NoHist
    /\ out = NoOut

\* date_results = self._extract_sentences_by_date(..., limit), for the day
\* and with the whole limit remaining.
ExtractRows ==
    /\ search.pass_no = 0
    /\ search' = [search EXCEPT !.pass_no = 1,
                                !.results = extract_sentences_by_date(page, today, args.limit)]
    /\ UNCHANGED <<main_pc, args, pc, driver, today, page, docs, hist, out, cacheVars, probeVars, dlVars, navVars>>

\* The browser shows another page.
NextRows ==
    /\ search.pass_no = 1
    /\ page' \in RowPages
    /\ search' = NoSearch
    /\ UNCHANGED <<main_pc, args, pc, driver, today, docs, hist, out, cacheVars, probeVars, dlVars, navVars>>

RowsNext == ExtractRows \/ NextRows

SpecRows == RowsInit /\ [][RowsNext]_vars

(***************************************************************************)
(* SpecNav: _navigate_to_jurisprudencia on the three entry points, with    *)
(* what the site does on each of them.                                     *)
(***************************************************************************)

\* The pages a readiness wait can meet.
WaitEnvs ==
    {QuickWait} \cup SlowWaits
        \cup {WaitEnv("ok", "ok", 2, c) : c \in 0..MaxScriptCost}
        \cup {WaitEnv("timeout", "ok", 1, 0), WaitEnv("ok", "timeout", 1, 0),
              WaitEnv("raises", "ok", 1, 0)}

\* The pages the wait after a click can meet.
PostWaitEnvs ==
    {QuickWait, WaitEnv("timeout", "ok", 1, 0), WaitEnv("raises", "ok", 1, 0)} \cup SlowWaits

\* What the first entry point can do.
CandEnvs ==
    {CandidateOf("raises")}
        \cup {Candidate("ok", w, b, QuickWait) : w \in WaitEnvs, b \in Buttons \ {"clickable"}}
        \cup {Candidate("ok", w, "clickable", p) : w \in WaitEnvs, p \in PostWaitEnvs}

\* What the three entry points do during one call.
NavCands ==
    {<<c, CandidateOf(o2), CandidateOf(o3)>> : c \in CandEnvs, o2 \in NavOutcomes, o3 \in NavOutcomes}

NavInit ==
    /\ ProbeIdle
    /\ DlIdle
    /\ RunIdle
    /\ now = 1 /\ url_cache = <<>> /\ last_probe = <<>> /\ last = NoCall
    /\ nav \in {[NoNav EXCEPT !.cands = cands] : cands \in NavCands}

\* success = self._navigate_to_jurisprudencia()
Resolve ==
    /\ nav.trace = <<>>
    /\ LET r == navigate_to_jurisprudencia(nav.cands)
       IN  nav' = [nav EXCEPT !.result = r.result, !.trace = r.trace]
    /\ UNCHANGED <<cacheVars, probeVars, runVars, dlVars>>

\* The next call meets a site that behaves in another way.
NextNavigation ==
    /\ nav.trace # <<>>
    /\ nav' \in {[NoNav EXCEPT !.cands = cands] : cands \in NavCands}
    /\ UNCHANGED <<cacheVars, probeVars, runVars, dlVars>>

NavNext == Resolve \/ NextNavigation

SpecNav == NavInit /\ [][NavNext]_vars

(***************************************************************************)
(* Claims about the Verification Cache                                     *)
(***************************************************************************)

\* This step is a call verify(u).
Called(u) == last'.flip # last.flip /\ last'.url = u

\* C1: two calls of verify(url) within the TTL window of a probe make no
\* second probe and the later one returns the cached verdict; a call on an
\* absent or expired entry makes one probe and stores {verdict, now}; hence
\* two probes of one url are never less than a TTL apart.
C1_CachedWithinTtl ==
    [][\A u \in CalledUrls : Called(u) =>
          LET live == u \in DOMAIN url_cache /\ now - url_cache[u].timestamp < URL_CACHE_TTL
          IN  /\ live => /\ last'.probe = "none"
                         /\ last'.result = url_cache[u].valid
              /\ ~live => /\ last'.probe # "none"
                          /\ u \in DOMAIN url_cache'
                          /\ url_cache'[u] = [valid |-> last'.result, timestamp |-> now]
              /\ last'.probe # "none" =>
                    /\ last_probe'[u] = now
                    /\ u \in DOMAIN last_probe => now - last_probe[u] >= URL_CACHE_TTL]_vars

\* A url cached before the TTL ran out was probed again after it and the
\* last call was answered from that new entry.
C1_Witness ==
    /\ Cardinality(DOMAIN url_cache) >= CLEANUP_SIZE
    /\ last.flip /\ last.url = UrlOf(1) /\ last.probe = "none"
    /\ UrlOf(1) \in DOMAIN url_cache
    /\ url_cache[UrlOf(1)].timestamp >= URL_CACHE_TTL
    /\ last.result = url_cache[UrlOf(1)].valid

\* C8: a verify(url) whose live probe raised (timeout, connection error or
\* any other exception) returns false.
C8_ProbeFailureIsInvalid == last.probe = "failure" => last.result = FALSE

C8_Witness == last.probe = "failure" /\ last.url \in DOMAIN url_cache

\* C10: the sweep runs only in a call that misses while the cache holds more
\* than 100 entries; it removes exactly the entries whose age is at least the
\* TTL; no other entry is ever removed; and the lookup treats an entry as
\* expired under the same test (age >= TTL).
C10_PureTtlSweep ==
    [][\A u \in CalledUrls : Called(u) =>
          LET aged(k) == now - url_cache[k].timestamp >= URL_CACHE_TTL
              others == DOMAIN url_cache \ {u}
              kept(k) == k \in DOMAIN url_cache' /\ url_cache'[k] = url_cache[k]
          IN  /\ last'.swept => /\ last'.probe # "none"
                                /\ Cardinality(DOMAIN url_cache) > 100
              /\ last'.swept => \A k \in others : IF aged(k) THEN k \notin DOMAIN url_cache'
                                                  ELSE kept(k)
              /\ ~last'.swept => \A k \in others : kept(k)
              /\ u \in DOMAIN url_cache => (aged(u) <=> last'.probe # "none")]_vars

\* A sweep removed the expired entries and kept one a second younger.
C10_Witness ==
    /\ last.swept
    /\ Cardinality(DOMAIN url_cache) < CLEANUP_SIZE
    /\ UrlOf(1) \notin DOMAIN url_cache
    /\ UrlOf(2) \in DOMAIN url_cache
    /\ url_cache[UrlOf(2)].timestamp = 1
    /\ now - url_cache[UrlOf(2)].timestamp = URL_CACHE_TTL - 1

\* C29: a call verify(url) that finds a live entry leaves the whole cache as
\* it was: no entry is added, removed or given a new timestamp and the
\* sweep does not run, even when it would be due; so the timestamp of every
\* entry is the time of the probe that created it, however often it is read.
C29_HitLeavesCacheUnchanged ==
    /\ [][\A u \in CalledUrls : Called(u) =>
            (u \in DOMAIN url_cache /\ now - url_cache[u].timestamp < URL_CACHE_TTL =>
                /\ url_cache' = url_cache
                /\ last_probe' = last_probe
                /\ ~last'.swept
                /\ last'.probe = "none")]_vars
    /\ [](\A u \in DOMAIN url_cache :
              u \in DOMAIN last_probe /\ url_cache[u].timestamp = last_probe[u])

\* A call was answered from an entry one second before its TTL ran out,
\* in a cache of more than CLEANUP_SIZE entries that holds expired ones:
\* they are all still there and the entry read has the timestamp it had.
C29_Witness ==
    /\ last.url = UrlOf(2) /\ last.probe = "none" /\ ~last.swept
    /\ Cardinality(DOMAIN url_cache) > CLEANUP_SIZE
    /\ UrlOf(1) \in DOMAIN url_cache
    /\ now - url_cache[UrlOf(1)].timestamp >= URL_CACHE_TTL
    /\ now - url_cache[UrlOf(2)].timestamp = URL_CACHE_TTL - 1
    /\ url_cache[UrlOf(2)].timestamp = 1

\* C30: the verdict of a probe that raised is stored like any other: for a
\* whole TTL after such a probe every call verify on that url returns false
\* and makes no probe, whatever the url would answer by then.
C30_FailureCachedForTtl ==
    [][\A u \in CalledUrls : Called(u) =>
          /\ last'.probe = "failure" =>
                /\ u \in DOMAIN url_cache'
                /\ url_cache'[u] = [valid |-> FALSE, timestamp |-> now]
          /\ u \in last.failed /\ now - last_probe[u] < URL_CACHE_TTL =>
                /\ last'.probe = "none"
                /\ last'.result = FALSE]_vars

\* A url whose probe raised is asked again one second before the TTL runs
\* out: the call is answered false from the cache.
C30_Witness ==
    /\ last.url \in last.failed
    /\ last.probe = "none" /\ last.result = FALSE
    /\ now - last_probe[last.url] = URL_CACHE_TTL - 1

(***************************************************************************)
(* Claims about the live probe                                             *)
(***************************************************************************)

\* The content-type test the claim states: not HTML, and either empty/absent
\* or naming one of the allow-listed document types.
DeclaredAsDocument(ctype) ==
    LET declared == Lower(IF ctype.present THEN ctype.value ELSE <<>>)
        allowed == {<<"a", "p", "p", "l", "i", "c", "a", "t", "i", "o", "n", "/", "r", "t", "f">>,
                    <<"a", "p", "p", "l", "i", "c", "a", "t", "i", "o", "n", "/", "v", "n", "d", ".", "o", "p", "e", "n", "x", "m", "l", "f", "o", "r", "m", "a", "t", "s">>,
                    <<"a", "p", "p", "l", "i", "c", "a", "t", "i", "o", "n", "/", "m", "s", "w", "o", "r", "d">>,
                    <<"a", "p", "p", "l", "i", "c", "a", "t", "i", "o", "n", "/", "p", "d", "f">>,
                    <<"a", "p", "p", "l", "i", "c", "a", "t", "i", "o", "n", "/", "o", "c", "t", "e", "t", "-", "s", "t", "r", "e", "a", "m">>}
    IN  /\ ~Contains(<<"t", "e", "x", "t", "/", "h", "t", "m", "l">>, declared)
        /\ declared = <<>> \/ \E a \in allowed : Contains(a, declared)

ProbeAnswered == probe_verdict # "pending" /\ probe_resp.kind = "response"

\* C9 as stated: a non-2xx status is invalid, and any 2xx status is valid
\* exactly when the content type is declared as a document.
C9_Any2xxClassified ==
    ProbeAnswered =>
        (probe_verdict = "valid" <=>
            /\ probe_resp.status >= 200 /\ probe_resp.status <= 299
            /\ DeclaredAsDocument(probe_resp.ctype))

\* C9 as amended: every status other than 200 is invalid, and status 200 is
\* valid exactly when the content type is declared as a document.
C9_Only200Classified ==
    ProbeAnswered =>
        (probe_verdict = "valid" <=>
            /\ probe_resp.status = 200
            /\ DeclaredAsDocument(probe_resp.ctype))

\* A 2xx answer other than 200 that declares a document type was classified.
C9_Witness ==
    /\ ProbeAnswered
    /\ probe_resp.status = 204
    /\ probe_resp.ctype = Header(ApplicationRtf)
    /\ probe_verdict = "invalid"

(***************************************************************************)
(* Claims about the orchestrator and the process wrapper                   *)
(***************************************************************************)

\* The candidates whose verification returned true, in order.
RECURSIVE Kept(_, _)
Kept(candidates, verdicts) ==
    IF candidates = <<>> \/ verdicts = <<>> THEN <<>>
    ELSE (IF Head(verdicts) THEN <<Head(candidates)>> ELSE <<>>)
            \o Kept(Tail(candidates), Tail(verdicts))

\* The positions of the run's events that are e.
At(e) == {i \in 1..Len(hist.events) : hist.events[i] = e}

\* C2: every document a run returns has a non-empty document url for which
\* the verification returned true during the run, and every candidate whose
\* verification returned false is absent: the result is exactly the
\* candidates with a true verdict.
C2_OnlyVerifiedReturned ==
    pc = "returned" =>
        /\ Len(hist.verdicts) = Len(hist.candidates)
        /\ docs.ret = Kept(hist.candidates, hist.verdicts)
        /\ \A i \in 1..Len(docs.ret) :
              /\ docs.ret[i].pdf_url # <<>>
              /\ \E j \in 1..Len(hist.candidates) :
                    hist.candidates[j] = docs.ret[i] /\ hist.verdicts[j]

\* A run returned one of two candidates and dropped the other.
C2_Witness ==
    /\ pc = "returned"
    /\ Len(hist.candidates) = 2
    /\ hist.verdicts = <<FALSE, TRUE>>
    /\ docs.ret = <<hist.candidates[2]>>

C4_AtMostOneEscalation ==
    /\ Len(hist.passes) <= 2
    /\ search.pass_no = 2 =>
          /\ hist.passes # <<>>
          /\ ~hist.passes[1].extended /\ hist.passes[1].found = 0
          /\ search.extended
    /\ Len(hist.passes) = 2 => hist.passes[2].extended
    /\ pc = "returned" =>
          /\ Len(hist.passes) >= 1
          /\ Len(hist.passes) = 2 <=> (~hist.passes[1].extended /\ hist.passes[1].found = 0)

\* A normal pass found nothing and the extended pass after it found a document.
C4_Witness ==
    /\ pc = "returned"
    /\ Len(hist.passes) = 2
    /\ hist.passes[1].how = "searched"
    /\ hist.passes[2].found > 0

\* C5: once the navigation has exhausted every entry point, the run makes no
\* further navigation attempt and no row extraction, and returns the empty list.
C5_NavigationFailureTerminal ==
    /\ \A i \in At("navigate-exhausted") :
          \A j \in (i + 1)..Len(hist.events) :
              hist.events[j] \notin {"navigate-ok", "navigate-exhausted", "rows"}
    /\ pc = "returned" /\ At("navigate-exhausted") # {} => docs.ret = <<>>

\* C6: the fallback configuration is tried only after the primary one failed;
\* once both have failed, the run makes no further acquisition attempt and
\* returns the empty list.
C6_AcquisitionFailureTerminal ==
    /\ \A i \in At("fallback-ok") \cup At("fallback-failed") :
          i > 1 /\ hist.events[i - 1] = "primary-failed"
    /\ \A i \in At("fallback-failed") :
          \A j \in (i + 1)..Len(hist.events) :
              hist.events[j] \notin {"primary-ok", "primary-failed"}
    /\ pc = "returned" /\ At("fallback-failed") # {} => docs.ret = <<>>

\* C7: when an invocation of main has ended, a session that was acquired
\* has been quit.
C7_SessionReleasedOnExit == main_pc = "done" => driver # "live"

(***************************************************************************)
(* Claims about the search window                                          *)
(***************************************************************************)

\* C11: for every today and either mode the generated window holds only
\* Monday-Friday dates, in strictly descending order, none later than today,
\* and exactly the mode's business-day count of them (2 normal, 8 extended).
C11_WindowShape ==
    search.dates # <<>> =>
        LET w == search.dates
        IN  /\ Len(w) = IF search.extended THEN 8 ELSE 2
            /\ \A i \in 1..Len(w) : w[i] % 7 \in 0..4 /\ w[i] <= today
            /\ \A i \in 1..(Len(w) - 1) : w[i + 1] < w[i]

\* An extended window generated on a Sunday: it starts on the Friday before
\* and reaches back over two weekends.
C11_Witness ==
    /\ pc = "idle"
    /\ today % 7 = 6
    /\ search.extended
    /\ Len(search.dates) = 8
    /\ search.dates[1] = today - 2
    /\ search.dates[8] = today - 11

(***************************************************************************)
(* Claims about the limit                                                  *)
(***************************************************************************)

\* A step in which the Row Extractor is called for one more date.
RowExtractorCalled == pc = "search" /\ hist'.events = Append(hist.events, "rows")

\* C12: a run returns at most limit documents, the candidates accumulated
\* by a pass never exceed limit, and the Row Extractor is called for a
\* further date only while fewer than limit candidates have been accumulated.
C12_LimitRespected ==
    /\ [](/\ Len(search.results) <= args.limit
          /\ Len(docs.documents) <= args.limit
          /\ pc = "returned" => Len(docs.ret) <= args.limit)
    /\ [][RowExtractorCalled => Len(search.results) < args.limit]_vars

\* A run with limit 1 on a page with more matching rows returned one
\* document and left a date of its window unsearched.
C12_Witness ==
    /\ pc = "returned"
    /\ args.limit = 1
    /\ Len(docs.ret) = 1
    /\ search.dates # <<>>
    /\ Len(page.table) >= 3

(***************************************************************************)
(* Claims about download_document                                          *)
(***************************************************************************)

\* The last download received a payload (no transport failure, no HTTP error).
PayloadReceived ==
    /\ dl.calls > 0 /\ dl.document_url # <<>>
    /\ dl.env.fs.at # "mkdir"
    /\ dl.env.resp.kind = "response" /\ dl.env.resp.status < 400

\* The declared content type of a payload contains text/html.
DeclaredHtml(resp) ==
    resp.ctype.present /\
    \E i \in 1..Len(resp.ctype.value) :
        Lower(SubSeq(resp.ctype.value, i, i + 8)) = <<"t", "e", "x", "t", "/", "h", "t", "m", "l">>

\* The first 500 bytes of a body contain an HTML doctype or an <html tag.
SniffedHtml(body) ==
    LET bytes == Lower(Content(body))
        has(text) == \E i \in 1..(500 - Len(text) + 1) :
                        /\ i + Len(text) - 1 <= Len(bytes)
                        /\ SubSeq(bytes, i, i + Len(text) - 1) = text
    IN  \/ has(<<"<", "!", "d", "o", "c", "t", "y", "p", "e", " ", "h", "t", "m", "l">>)
        \/ has(<<"<", "h", "t", "m", "l">>)

\* C13: a payload that is declared or sniffed as HTML, or whose written size
\* is below 100 bytes, is reported absent and no file written by the call
\* remains; a returned path names an existing file that holds the payload,
\* is not HTML by either test and has at least 100 bytes.
C13_NoHtmlOrUndersizedArtifact ==
    PayloadReceived =>
        /\ (\/ DeclaredHtml(dl.env.resp)
             \/ SniffedHtml(dl.env.resp.body)
             \/ (dl.wrote # <<>> /\ dl.written < 100))
            => /\ dl.path = <<>>
               /\ dl.wrote # <<>> => dl.wrote \notin DOMAIN disk
        /\ dl.path # <<>> =>
               /\ dl.path \in DOMAIN disk
               /\ disk[dl.path].body = dl.env.resp.body
               /\ disk[dl.path].size >= 100
               /\ ~DeclaredHtml(dl.env.resp)
               /\ ~SniffedHtml(dl.env.resp.body)

\* An identifier with every "/" replaced by "-".
Dashed(id) == [i \in 1..Len(id) |-> IF id[i] = "/" THEN "-" ELSE id[i]]

\* The last download returned a path.
Accepted == dl.calls > 0 /\ dl.path # <<>>

\* C14: an accepted body that starts with PK is stored as
\* docx/<identifier>.docx, one that starts with {\rtf as
\* rtf/<identifier>.rtf, whatever the url suffix and the declared content
\* type; any other body keeps the extension guessed from the url suffix.
C14_StoredBySignature ==
    Accepted =>
        LET bytes == Content(dl.env.resp.body)
            name == Dashed(dl.sentence_number)
            starts(sig) == Len(bytes) >= Len(sig) /\ SubSeq(bytes, 1, Len(sig)) = sig
            url_is_rtf == /\ Len(dl.document_url) >= 4
                          /\ SubSeq(dl.document_url, Len(dl.document_url) - 3, Len(dl.document_url))
                                = <<".", "r", "t", "f">>
        IN  IF starts(<<"P", "K">>)
            THEN dl.path = <<"d", "o", "c", "x", "/">> \o name \o <<".", "d", "o", "c", "x">>
            ELSE IF starts(<<"{", "\\", "r", "t", "f">>)
            THEN dl.path = <<"r", "t", "f", "/">> \o name \o <<".", "r", "t", "f">>
            ELSE LET ext == IF url_is_rtf THEN <<".", "r", "t", "f">>
                            ELSE <<".", "d", "o", "c", "x">>
                     tail == name \o ext
                 IN  /\ Len(dl.path) >= Len(tail)
                     /\ SubSeq(dl.path, Len(dl.path) - Len(tail) + 1, Len(dl.path)) = tail

\* A zip body declared as application/octet-stream and fetched from a url
\* ending in .rtf was stored under docx/ with the .docx extension.
C14_Witness ==
    /\ Accepted
    /\ dl.env.resp.body.magic = MagicZip
    /\ dl.env.resp.ctype = Header(ApplicationOctetStream)
    /\ EndsWith(dl.document_url, DotRtf)
    /\ dl.sentence_number = ID_SU
    /\ dl.path = <<"d", "o", "c", "x", "/", "S", "U", ".", "2", "-", "2", "5", ".", "d", "o", "c", "x">>
    /\ dl.path \in DOMAIN disk

\* The last download met a transport failure, an HTTP error status or a
\* file-system failure.
DownloadFaulted ==
    /\ dl.calls > 0 /\ dl.document_url # <<>>
    /\ \/ dl.env.resp.kind \in {"timeout", "connection"}
       \/ dl.env.resp.status >= 400
       \/ dl.env.fs.at \in {"mkdir", "open", "write", "stat"}
       \/ (dl.env.fs.at = "unlink" /\ dl.env.resp.body.size < 100)

\* C15: no exception leaves download_document; a download that met a
\* transport or file-system failure is reported absent.
C15_DownloadNeverRaises ==
    /\ ~dl.escaped
    /\ DownloadFaulted => dl.path = <<>>

\* A write that raised after the file was opened was reported absent.
C15_Witness ==
    /\ DownloadFaulted
    /\ dl.env.fs.at = "write"
    /\ dl.wrote # <<>>
    /\ dl.path = <<>>
    /\ ~dl.escaped

(***************************************************************************)
(* Claims about the synthesized urls and the document type                 *)
(***************************************************************************)

\* The documents the Row Extractor has produced.
Produced == {search.results[i] : i \in 1..Len(search.results)}

\* The path segment the claim describes: the identifier lower-cased, every
\* "/" a "-", and a leading "SU." rewritten to "su".
Segment(id) ==
    LET body == IF Len(id) >= 3 /\ SubSeq(id, 1, 3) = <<"S", "U", ".">>
                THEN <<"s", "u">> \o SubSeq(id, 4, Len(id))
                ELSE id
    IN  [i \in 1..Len(body) |-> IF body[i] = "/" THEN "-" ELSE LowerChar(body[i])]

\* C16: every produced document has the document url
\* BASE/sentencias/<current year>/<segment>.rtf and the HTML url
\* BASE/relatoria/<current year>/<identifier with "/" replaced by "-">.htm.
C16_SynthesizedUrls ==
    \A doc \in Produced :
        /\ doc.pdf_url = BASE_URL \o <<"/", "s", "e", "n", "t", "e", "n", "c", "i", "a", "s", "/">> \o Digits(current_year)
                            \o <<"/">> \o Segment(doc.document_id) \o <<".", "r", "t", "f">>
        /\ doc.html_url = BASE_URL \o <<"/", "r", "e", "l", "a", "t", "o", "r", "i", "a", "/">> \o Digits(current_year)
                            \o <<"/">> \o Dashed(doc.document_id) \o <<".", "h", "t", "m">>

\* A row that writes su.045/25 in lower case gave SU.045/25 with the
\* segment su045-25.
C16_Witness ==
    \E doc \in Produced :
        /\ pc = "idle"
        /\ doc.document_id = <<"S", "U", ".", "0", "4", "5", "/", "2", "5">>
        /\ doc.pdf_url = BASE_URL \o <<"/", "s", "e", "n", "t", "e", "n", "c", "i", "a", "s", "/", "2", "0", "2", "5", "/", "s", "u", "0", "4", "5", "-", "2", "5", ".", "r", "t", "f">>
        /\ doc.html_url = BASE_URL \o <<"/", "r", "e", "l", "a", "t", "o", "r", "i", "a", "/", "2", "0", "2", "5", "/", "S", "U", ".", "0", "4", "5", "-", "2", "5", ".", "h", "t", "m">>

\* The part of an identifier before its first "-" or ".".
TypePrefix(id) ==
    LET cuts == {i \in 1..Len(id) : id[i] \in {"-", "."}}
    IN  IF cuts = {} THEN id
        ELSE SubSeq(id, 1, (CHOOSE i \in cuts : \A j \in cuts : i <= j) - 1)

\* C17: the document type of every produced document is the part of its
\* identifier before the first "-" or ".", and so one of T, C, G, A, SU.
C17_TypeIsPrefix ==
    \A doc \in Produced :
        /\ doc.document_type = TypePrefix(doc.document_id)
        /\ doc.document_type \in {<<"T">>, <<"C">>, <<"G">>, <<"A">>, <<"S", "U">>}

(***************************************************************************)
(* Claims about the mode decision, the payload and the session             *)
(***************************************************************************)

\* In the current run the store-size query raised or answered with a status
\* other than 200, or the caller disabled the check.
StoreUnknown ==
    \/ At("mode-fault") # {}
    \/ At("mode-status") # {}
    \/ ~args.check_database_empty

\* C18: when the store size is unknown or the check is disabled, the run is
\* not ended by it and its first pass is a normal-mode pass.
C18_UnknownStoreMeansNormal ==
    (pc \notin {"idle", "mode"} /\ StoreUnknown) =>
        /\ pc # "escaped"
        /\ ~search.use_extended_search
        /\ pc = "pass" /\ search.pass_no = 1 => ~search.extended
        /\ hist.passes # <<>> => ~hist.passes[1].extended
        /\ pc = "returned" => hist.passes # <<>>

\* The store answered with an error status and the run went on to return
\* a document found by its normal-mode pass.
C18_Witness ==
    /\ pc = "returned"
    /\ args.check_database_empty
    /\ At("mode-status") # {}
    /\ Len(hist.passes) = 1
    /\ ~hist.passes[1].extended
    /\ docs.ret # <<>>

\* C19: when an invocation of main has ended, it has emitted one payload and
\* no exception has escaped it: a success payload whose totalFound is the
\* number of documents listed, with downloadedCount <= totalFound and
\* downloadedCount = 0 when --download was not given, or a failure payload
\* with no documents and downloadedCount = 0.
C19_OnePayload ==
    main_pc = "done" =>
        /\ ~out.escaped
        /\ \/ /\ out.payload = "success"
              /\ out.total_found = Len(docs.ret)
              /\ out.downloaded_count <= out.total_found
              /\ ~args.download => out.downloaded_count = 0
           \/ /\ out.payload = "failure"
              /\ out.total_found = 0
              /\ out.downloaded_count = 0

\* The acquisitions (calls of _setup_driver) a history of events records.
Acquisitions(h) == Cardinality({i \in 1..Len(h.events) : h.events[i] \in {"primary-ok", "primary-failed"}})

\* This step called _setup_driver.
Acquiring == hist'.runs = hist.runs /\ Acquisitions(hist') > Acquisitions(hist)

\* The session is acquired on entering a search pass and only while the
\* instance has none; the driver, once set, is never replaced.
LazyAndReused ==
    /\ Acquiring => pc = "pass" /\ driver = "none"
    /\ driver # "none" => driver' # "none"

\* The live browser sessions the instance is known to have: the one of
\* self.driver and those the current run started and left running.
LiveSessions == (IF driver = "live" THEN 1 ELSE 0) + hist.orphans

\* C20: the session is acquired lazily and reused -- no acquisition before
\* the first search pass, none on an instance that has acquired one -- so
\* that the instance has at most one live browser session at any time.
C20_OneLazySession == [](LiveSessions <= 1) /\ [][LazyAndReused]_vars

\* The part of C20 about the driver field alone.
LazyAndReusedAlways == [][LazyAndReused]_vars

(***************************************************************************)
(* Claims about the search mode, the navigation and the row extractor      *)
(***************************************************************************)

\* The store-size query of the run was answered with status 200 and a total.
StoreAnswered == hist.store.kind = "response" /\ hist.store.status = 200

\* C21: when the empty check is on and the store-size query succeeds, the
\* first search pass is extended if the reported total is below 5 and normal
\* if it is 5 or more; a run whose first pass is extended makes that one
\* pass only, even if it finds nothing.
C21_ModeFollowsStoreTotal ==
    StoreAnswered =>
        /\ pc = "pass" /\ search.pass_no = 1 => search.extended = (hist.store.total < 5)
        /\ hist.passes # <<>> => hist.passes[1].extended = (hist.store.total < 5)
        /\ hist.passes # <<>> /\ hist.passes[1].extended =>
              /\ Len(hist.passes) = 1
              /\ pc \notin {"pass", "navigate", "search", "raise"}

\* A store of 4 documents: the run made one extended pass, found nothing
\* and returned.
C21_Witness ==
    /\ pc = "returned"
    /\ StoreAnswered /\ hist.store.total = 4
    /\ Len(hist.passes) = 1
    /\ hist.passes[1].extended
    /\ hist.passes[1].found = 0
    /\ hist.passes[1].how = "searched"

\* C22: the resolver visits the entry points in their listed order; it
\* returns true at the first one on which a control was clicked and visits
\* none after it; an entry point that fails does not stop it; it returns
\* false only after it has tried them all.
C22_FirstClickWins ==
    nav.trace # <<>> =>
        /\ \A k \in 1..Len(nav.trace) : nav.trace[k].candidate = k
        /\ \A k \in 1..Len(nav.trace) :
              nav.trace[k].clicked => nav.result /\ k = Len(nav.trace)
        /\ nav.result => nav.trace[Len(nav.trace)].clicked
        /\ ~nav.result => Len(nav.trace) = Len(JURISPRUDENCIA_PATHS)

\* The readiness wait described by env ends with a TimeoutException.
TimesOut(env) == env.ready = "timeout" \/ (env.ready = "ok" /\ env.root = "timeout")

\* A timeout of a readiness wait does not make the entry point fail: the
\* control is searched for and, if it can be clicked, clicked, and a timeout
\* of the wait after the click leaves the click a success.
TimeoutsNonFatal ==
    \A k \in 1..Len(nav.trace) :
        LET v == nav.trace[k]
            cand == nav.cands[k]
        IN  /\ v.wait.outcome # "none" /\ TimesOut(cand.wait) =>
                  /\ v.wait.outcome = "timeout"
                  /\ v.searched
                  /\ cand.button = "clickable" => v.clicked
            /\ v.clicked /\ TimesOut(cand.post) => v.post.outcome = "timeout" /\ v.result

\* The readiness waits a navigation made.
WaitsMade == {nav.trace[k].wait : k \in 1..Len(nav.trace)} \cup
             {nav.trace[k].post : k \in 1..Len(nav.trace)}

\* The polling loops that ran.
PollingLoops == {w \in WaitsMade : w.outcome \in {"content", "deadline"}}

\* C23: a timeout of the document-ready wait or of the application-root wait
\* is not fatal for the entry point, and the content polling loop makes at
\* most CONTENT_WAIT_TIMEOUT / SCROLL_DELAY polls and ends less than one
\* iteration (one script call and one sleep) after its deadline.
C23_WaitNonFatalAndBounded ==
    /\ TimeoutsNonFatal
    /\ \A w \in PollingLoops :
          /\ w.polls <= CONTENT_WAIT_TIMEOUT \div SCROLL_DELAY
          /\ w.elapsed < CONTENT_WAIT_TIMEOUT + w.script_cost + SCROLL_DELAY

\* An entry point whose document-ready wait timed out: the control was
\* clicked all the same, and the polling loop after the click ran to its
\* deadline.
C23_Witness ==
    \E k \in 1..Len(nav.trace) :
        /\ nav.trace[k].wait.outcome = "timeout"
        /\ nav.trace[k].clicked
        /\ nav.trace[k].post.outcome = "deadline"
        /\ nav.trace[k].post.elapsed > CONTENT_WAIT_TIMEOUT

\* C23 as stated: the polling loop ends no later than its deadline.
C23_WaitNonFatalEndsByDeadline ==
    /\ TimeoutsNonFatal
    /\ \A w \in PollingLoops : w.elapsed <= CONTENT_WAIT_TIMEOUT

\* The Row Extractor has been called on the page.
RowsExtracted == search.pass_no = 1 /\ pc = "idle"

Take(s, n) == SubSeq(s, 1, Min(n, Len(s)))

\* The rows of a selector that name the day and a sentence, among those the
\* row loop reaches.
Matching(rows, day) ==
    SelectSeq(Take(rows, MAX_ROW_PROCESSING),
              LAMBDA r : ~r.stale /\ ~r.short /\ day \in r.dates /\ r.id # <<>>)

\* The sentences of a sequence of rows, and of the documents extracted.
IdsOf(rows) == [i \in 1..Len(rows) |-> rows[i].id]

ResultIds == [i \in 1..Len(search.results) |-> search.results[i].document_id]

\* C24: a row that names the day but no sentence, and a row whose processing
\* raises, give no document and no error, and the rows after them are
\* scanned: on a table of three rows or more that has a row with the day
\* and a sentence, the documents are those of such rows, in order, up to
\* the limit.
C24_SkippedRowsAreHarmless ==
    RowsExtracted /\ Len(page.table) > 2 /\ Matching(page.table, today) # <<>> =>
        ResultIds = Take(IdsOf(Matching(page.table, today)), args.limit)

\* A row of the day without sentence and a row that raises stand before the
\* row of T-1/25, which is extracted.
C24_Witness ==
    /\ RowsExtracted
    /\ page.table = <<Row(RowDay, <<>>), StaleRow, Row(RowDay, ID_T)>>
    /\ ResultIds = <<ID_T>>

\* The selectors of the page that can contribute: those that find three
\* rows or more.
Contributing == {rows \in {page.table, page.tbody} : Len(rows) > 2}

\* C25: the Row Extractor returns at most `limit` documents; a selector that
\* finds fewer than three rows contributes nothing; only the first
\* MAX_ROW_PROCESSING rows of a selector are scanned; all the documents come
\* from one selector, the first that has a matching row, one document for
\* each of its matching rows.
C25_OneSelectorBounded ==
    RowsExtracted =>
        /\ Len(search.results) <= args.limit
        /\ Contributing = {} => search.results = <<>>
        /\ search.results # <<>> =>
              \E rows \in Contributing :
                  /\ ResultIds = Take(IdsOf(Matching(rows, today)), args.limit)
                  /\ rows = page.tbody /\ page.table \in Contributing =>
                        Matching(page.table, today) = <<>>

\* The table gave one document and the limit is 2: the rows of the second
\* selector, which name two more sentences of the day, were not scanned.
C25_Witness ==
    /\ RowsExtracted
    /\ args.limit = 2
    /\ page.table = <<Header3, Header3, Row(RowDay, ID_T)>>
    /\ Matching(page.tbody, today) # <<>>
    /\ ResultIds = <<ID_T>>

\* id is what the earliest pattern that matches row_text matches first.
EarliestPatternFirstMatch(row_text, id) ==
    \A n \in 1..Len(sentence_patterns) :
        /\ FirstMatch(row_text, sentence_patterns[n]) # <<>>
        /\ \A m \in 1..(n - 1) : FirstMatch(row_text, sentence_patterns[m]) = <<>>
        => id = Upper(FirstMatch(row_text, sentence_patterns[n]))

\* C27: every identifier the Row Extractor produces is upper-case and is
\* what the ordered patterns read in a row text made of the identifier
\* alone; the identifier of a row is the first match of the earliest
\* pattern of the fixed order that matches its text, wherever the matches
\* of the later patterns are.
C27_IdentifierCanonical ==
    RowsExtracted =>
        /\ \A i \in 1..Len(ResultIds) :
              /\ Upper(ResultIds[i]) = ResultIds[i]
              /\ find_sentence_number(ResultIds[i]) = ResultIds[i]
        /\ \A rows \in Contributing :
              ResultIds = Take(IdsOf(Matching(rows, today)), args.limit) =>
                  \A i \in 1..Len(ResultIds) :
                      EarliestPatternFirstMatch(Strip(Matching(rows, today)[i].text), ResultIds[i])

\* The row names T-1/25 and then su.2/25: the identifier is SU.2/25.
C27_Witness ==
    /\ RowsExtracted
    /\ Len(page.table) = 3
    /\ page.table[3].text = target_date_short(RowDay)
                                \o <<" ", "T", "-", "1", "/", "2", "5", " ", "y", " ",
                                      "s", "u", ".", "2", "/", "2", "5">>
    /\ ResultIds = <<<<"S", "U", ".", "2", "/", "2", "5">>>>

\* The documents of a sequence that were found for the search date d.
OfDate(documents, d) == SelectSeq(documents, LAMBDA doc : doc.target_date = d)

IsPrefix(a, b) == Len(a) <= Len(b) /\ a = SubSeq(b, 1, Len(a))

\* The candidates the validation loop kept, in the order of the candidates.
KeptCandidates ==
    LET kept == SelectSeq([i \in 1..Len(hist.candidates) |-> i], LAMBDA i : hist.verdicts[i])
    IN  [k \in 1..Len(kept) |-> hist.candidates[kept[k]]]

\* C26: nothing is sorted again. In the result of a run the documents of a
\* more recent search date stand before those of an older one; the
\* candidates of one search date are in the order of the rows of the page;
\* the result is the candidates the validation kept, in their order.
C26_NoReSort ==
    pc = "returned" /\ docs.ret # <<>> =>
        /\ \A i, j \in 1..Len(docs.ret) :
              i < j => docs.ret[i].target_date >= docs.ret[j].target_date
        /\ \A d \in PageDays :
              OfDate(hist.candidates, d) # <<>> =>
                  \E rows \in Contributing :
                      IsPrefix([i \in 1..Len(OfDate(hist.candidates, d)) |->
                                   OfDate(hist.candidates, d)[i].document_id],
                               IdsOf(Matching(rows, d)))
        /\ docs.ret = KeptCandidates

\* A run returns a document found for the day and, after it, one found for
\* the day before.
C26_Witness ==
    /\ pc = "returned"
    /\ Len(docs.ret) = 2
    /\ docs.ret[1].target_date = today
    /\ docs.ret[2].target_date = today - 1

\* The run has returned after its last pass searched a page of three rows
\* whose only dated row names a date of the window of that pass, and the
\* limit was 1 or more.
E2ECase ==
    /\ pc = "returned"
    /\ args.limit >= 1
    /\ page \in E2EPages
    /\ hist.passes # <<>>
    /\ LET pass == hist.passes[Len(hist.passes)]
           window == get_extraction_dates(today, pass.extended)
       IN  /\ pass.how = "searched"
           /\ \E n \in 1..Len(window) : window[n] \in page.table[3].dates

\* C28: end to end, on a page of three rows of which exactly one names a
\* date of the search window, in any of its forms, and one sentence, a run
\* with limit >= 1 finds exactly one candidate, of the type of the sentence
\* and with both urls non-empty; the result is that document if its url is
\* verified valid, and empty if not.
C28_EndToEndOneDocument ==
    E2ECase =>
        /\ Len(hist.candidates) = 1
        /\ hist.candidates[1].document_id = ID_C
        /\ hist.candidates[1].document_type = <<"C">>
        /\ hist.candidates[1].pdf_url # <<>>
        /\ hist.candidates[1].html_url # <<>>
        /\ Len(hist.verdicts) = 1
        /\ docs.ret = IF hist.verdicts[1] THEN hist.candidates ELSE <<>>

\* Every candidate of the run was verified and rejected.
AllRejected == hist.verdicts # <<>> /\ \A i \in 1..Len(hist.verdicts) : ~hist.verdicts[i]

\* A pass that found a candidate is the only pass of its run, a run whose
\* candidates were all rejected returns nothing, and verdicts exist only
\* in the validation loop and after it.
DecidedOnCandidates ==
    /\ (hist.passes # <<>> /\ hist.passes[1].found >= 1) => (Len(hist.passes) = 1)
    /\ (pc = "returned" /\ AllRejected) => (docs.ret = <<>>)
    /\ (hist.verdicts # <<>>) => (pc \in {"filter", "returned"})

\* A pass returns only while the run has verified nothing, and a
\* verification is a step of the validation loop that returns no pass.
ProbesAfterPasses ==
    /\ (Len(hist'.passes) > Len(hist.passes)) => (hist.verdicts = <<>> /\ hist'.verdicts = <<>>)
    /\ (Len(hist'.verdicts) > Len(hist.verdicts)) => (hist'.passes = hist.passes /\ pc = "filter")

\* C31: the escalation looks at the candidates a pass found, before they are
\* verified: a run whose normal pass found a candidate makes no other pass,
\* and returns nothing if the validation rejects every candidate; every
\* verification of a run is made after its last pass has returned.
C31_EscalationBeforeFiltering == []DecidedOnCandidates /\ [][ProbesAfterPasses]_vars

\* The normal pass found two candidates, both were rejected, and the run
\* returned nothing after that one pass.
C31_Witness ==
    /\ pc = "returned"
    /\ Len(hist.passes) = 1 /\ ~hist.passes[1].extended /\ hist.passes[1].found = 2
    /\ hist.verdicts = <<FALSE, FALSE>>
    /\ docs.ret = <<>>

\* The paths under which download_document stores a document of a sentence.
ArtifactPaths(sentence_number) ==
    LET safe_name == normalize_filename(sentence_number)
    IN  {rtf_dir \o safe_name \o DotRtf, rtf_dir \o safe_name \o DotDocx,
         docx_dir \o safe_name \o DotDocx}

\* C32: a download that ends in absence (an HTML answer, an undersized body
\* or a caught fault) leaves the file an earlier download of the same
\* sentence stored as it was: it is still on disk, with the same content.
C32_AbsenceKeepsEarlierArtifact ==
    [][(dl'.calls > dl.calls /\ dl'.path = <<>>) =>
          \A f \in DOMAIN disk \cap ArtifactPaths(dl'.sentence_number) :
              f \in DOMAIN disk' /\ disk'[f] = disk[f]]_vars

=============================================================================
